---- MODULE Spec2Model ----
(***************************************************************************)
(* m-voice signaling server: the room store, the join / leave / relay /    *)
(* display-name use cases, the SignalingController and the WSServer        *)
(* gateway, as one state machine whose steps are the gateway's event       *)
(* handlers, its heartbeat timer and its shutdown; and the browser         *)
(* client's RTCAdapter sessions with RoomManager's offer and answer        *)
(* handlers.                                                               *)
(*                                                                         *)
(* Strings that the code trims (room ids, display names) are sequences of  *)
(* one-character strings, so that trim() and .length are computed.         *)
(* An optional value (displayName?, client.roomId?) is <<>> when undefined *)
(* and <<v>> when set.  A join frame always carries a roomId string here:  *)
(* a frame without one behaves as one with the empty string (the Room      *)
(* constructor rejects both, and both leave client.roomId falsy).          *)
(***************************************************************************)
EXTENDS Integers, Sequences, FiniteSets, TLC

VARIABLES world, nextId, clients, rooms, last, terminated, running,
          browsers, sessions, wire, managers, event, transport

\* the server
serverVars == <<world, nextId, clients, rooms, last, terminated, running>>

\* the browser clients: their ids, their RTCAdapter sessions, the signaling
\* messages on their way from one client to another, their RoomManagers, the
\* client handler that ran last, and their WebSocketAdapters
clientVars == <<browsers, sessions, wire, managers, event, transport>>

\* what the negotiation of two joined clients leaves alone
joinedVars == <<browsers, managers, event, transport>>

vars == <<serverVars, clientVars>>

(***************************************************************************)
(* Program constants                                                       *)
(***************************************************************************)
MAX_PARTICIPANTS == 5

MAX_NAME_LENGTH == 50

(***************************************************************************)
(* Bounds of the model                                                     *)
(***************************************************************************)
\* connections the gateway accepts in a run of Spec (several room ids)
RoomsConns == 2

\* connections beyond the room capacity that the gateway accepts in a run of SpecWide
ExtraConns == 1

\* connections the gateway accepts in a run of SpecRelay (forged from and to ids)
RelayConns == 3

\* connections the gateway accepts in a run of SpecNames (display names)
NamesConns == 2

\* connections the gateway accepts in a run of SpecBeat (heartbeat and shutdown)
BeatConns == 3

\* participant ids that the two browser clients of SpecGlare draw theirs from
GlareIds == 3

(***************************************************************************)
(* Values                                                                  *)
(***************************************************************************)
None == <<>>

Some(v) == <<v>>

IsSome(o) == Len(o) = 1

Get(o) == o[1]

Range(s) == {s[i] : i \in 1..Len(s)}

\* room tokens a client may put in a join message
R1 == <<"R", "1">>

R2 == <<"R", "2">>

Blank == <<" ">>

Empty == <<>>

\* display names
NameA == <<"a">>

NameB == <<"b">>

PaddedB == <<" ", "b", " ">>

Spaces == <<" ", " ">>

LongName(n) == [i \in 1..n |-> "x"]

Padded(name) == <<" ">> \o name \o <<" ">>

\* ICE server list handed to the controller at construction (server.ts)
iceServers == <<"stun:stun.l.google.com:19302">>

\* error texts
ErrRoomFull == "Room is full (maximum 5 participants)"

ErrRoomFullEntity == "Room is full (max 5 participants)"

ErrDuplicate == "Participant already in room"

ErrRoomIdEmpty == "Room ID cannot be empty"

ErrRoomNotFound == "Room not found"

ErrSenderNotInRoom == "Sender not in room"

ErrRecipientNotInRoom == "Recipient not in room"

ErrNotInRoom == "Not in a room"

ErrEmptyName == "Display name cannot be empty"

ErrNameTooLong == "Display name is too long (max 50 characters)"

ErrParticipantNotFound == "Participant not found in room"

ErrJsonSyntax == "Unexpected token in JSON"

ErrInvalidFormat == "Invalid message format"

NoError == ""

(***************************************************************************)
(* String.prototype.trim on a character sequence                           *)
(***************************************************************************)
IsSpace(ch) == ch = " "

RECURSIVE TrimLeft(_)
TrimLeft(s) ==
    IF s = <<>> THEN <<>>
    ELSE IF IsSpace(Head(s)) THEN TrimLeft(Tail(s))
    ELSE s

RECURSIVE TrimRight(_)
TrimRight(s) ==
    IF s = <<>> THEN <<>>
    ELSE IF IsSpace(s[Len(s)]) THEN TrimRight(SubSeq(s, 1, Len(s) - 1))
    ELSE s

Trim(s) == TrimRight(TrimLeft(s))

\* JavaScript truthiness of an optional string: undefined and "" are falsy
Truthy(o) == IsSome(o) /\ Len(Get(o)) > 0

(***************************************************************************)
(* Room entity: a room is the sequence of its participants in Map          *)
(* insertion order                                                         *)
(***************************************************************************)
Participant(id, displayName) == [id |-> id, displayName |-> displayName]

\* the Room constructor's guard: !id || id.trim().length === 0 throws
RoomIdValid(roomId) == Len(roomId) > 0 /\ Len(Trim(roomId)) > 0

MemberIds(members) == {members[i].id : i \in 1..Len(members)}

hasParticipant(members, id) == id \in MemberIds(members)

\* mutant: the capacity test is off by one
isFullOffByOne(members) == Len(members) > MAX_PARTICIPANTS

isFull(members) == Len(members) >= MAX_PARTICIPANTS

\* mutant: a room with one member left counts as empty
isEmptyOffByOne(members) == Len(members) <= 1

isEmpty(members) == Len(members) = 0

getAllParticipants(members) == members

\* mutant: no test for an id that is already a member
addParticipantNoDuplicateCheck(members, p) ==
    IF Len(members) >= MAX_PARTICIPANTS
    THEN [ok |-> FALSE, error |-> ErrRoomFullEntity, members |-> members]
    ELSE [ok |-> TRUE, error |-> NoError, members |-> Append(members, p)]

\* [ok, error, members]: throws for a duplicate id, then for a full room
addParticipant(members, p) ==
    IF hasParticipant(members, p.id)
    THEN [ok |-> FALSE, error |-> ErrDuplicate, members |-> members]
    ELSE IF Len(members) >= MAX_PARTICIPANTS
    THEN [ok |-> FALSE, error |-> ErrRoomFullEntity, members |-> members]
    ELSE [ok |-> TRUE, error |-> NoError, members |-> Append(members, p)]

\* mutant: removal by position, where an absent id removes the last member
removeParticipantSplice(members, id) ==
    IF id \in {members[i].id : i \in 1..Len(members)}
    THEN SelectSeq(members, LAMBDA p : p.id # id)
    ELSE SubSeq(members, 1, Len(members) - 1)

removeParticipant(members, id) == SelectSeq(members, LAMBDA p : p.id # id)

\* participant.displayName = name, in place
setDisplayName(members, id, name) ==
    [i \in 1..Len(members) |->
        IF members[i].id = id
        THEN Participant(id, Some(name))
        ELSE members[i]]

(***************************************************************************)
(* RoomRepositoryInMemory: store is a function from room id to members     *)
(***************************************************************************)
roomExists(store, roomId) == roomId \in DOMAIN store

findRoom(store, roomId) == IF roomExists(store, roomId) THEN Some(store[roomId]) ELSE None

putRoom(store, roomId, members) ==
    [r \in DOMAIN store \cup {roomId} |-> IF r = roomId THEN members ELSE store[r]]

\* mutant: a fresh room is stored under the id whether or not one exists
createRoomReplace(store, roomId) ==
    IF ~RoomIdValid(roomId) THEN [threw |-> TRUE, store |-> store]
    ELSE [threw |-> FALSE, store |-> putRoom(store, roomId, <<>>)]

\* [threw, store]: get-or-create; new Room(roomId) throws for a blank id
createRoom(store, roomId) ==
    IF roomExists(store, roomId) THEN [threw |-> FALSE, store |-> store]
    ELSE IF ~RoomIdValid(roomId) THEN [threw |-> TRUE, store |-> store]
    ELSE [threw |-> FALSE, store |-> putRoom(store, roomId, <<>>)]

\* mutant: the room stays in the map
deleteRoomNoop(store, roomId) == store

deleteRoom(store, roomId) == [r \in DOMAIN store \ {roomId} |-> store[r]]

(***************************************************************************)
(* JoinRoomUseCase.execute                                                 *)
(* [threw, success, error, store, existing]                                *)
(***************************************************************************)
JoinFailure(store, error) ==
    [threw |-> FALSE, success |-> FALSE, error |-> error, store |-> store,
     existing |-> <<>>]

\* mutant: neither the use case nor the room tests the capacity
JoinRoomUseCaseNoCapacity(store, roomId, participantId, displayName) ==
    LET created == createRoom(store, roomId)
    IN  IF created.threw
        THEN [threw |-> TRUE, success |-> FALSE, error |-> ErrRoomIdEmpty,
              store |-> store, existing |-> <<>>]
        ELSE LET members == created.store[roomId]
             IN  IF hasParticipant(members, participantId)
                 THEN JoinFailure(created.store, ErrDuplicate)
                 ELSE [threw |-> FALSE, success |-> TRUE, error |-> NoError,
                       store |-> putRoom(created.store, roomId,
                                     Append(members,
                                            Participant(participantId, displayName))),
                       existing |-> members]

\* mutant: the snapshot of existing participants is taken after the insertion
JoinRoomUseCaseSnapshotAfter(store, roomId, participantId, displayName) ==
    LET created == createRoom(store, roomId)
    IN  IF created.threw
        THEN [threw |-> TRUE, success |-> FALSE, error |-> ErrRoomIdEmpty,
              store |-> store, existing |-> <<>>]
        ELSE LET members == created.store[roomId]
                 added == addParticipant(members,
                              Participant(participantId, displayName))
             IN  IF isFull(members) THEN JoinFailure(created.store, ErrRoomFull)
                 ELSE IF ~added.ok THEN JoinFailure(created.store, added.error)
                 ELSE [threw |-> FALSE, success |-> TRUE, error |-> NoError,
                       store |-> putRoom(created.store, roomId, added.members),
                       existing |-> added.members]

JoinRoomUseCase(store, roomId, participantId, displayName) ==
    LET created == IF roomExists(store, roomId)
                   THEN [threw |-> FALSE, store |-> store]
                   ELSE createRoom(store, roomId)
    IN  IF created.threw
        THEN \* the catch block calls createRoom again, which throws out of execute
             [threw |-> TRUE, success |-> FALSE, error |-> ErrRoomIdEmpty,
              store |-> store, existing |-> <<>>]
        ELSE LET members == created.store[roomId]
             IN  IF isFull(members)
                 THEN JoinFailure(created.store, ErrRoomFull)
                 ELSE LET existingParticipants == getAllParticipants(members)
                          added == addParticipant(members,
                                       Participant(participantId, displayName))
                      IN  IF ~added.ok
                          THEN JoinFailure(created.store, added.error)
                          ELSE [threw |-> FALSE, success |-> TRUE, error |-> NoError,
                                store |-> putRoom(created.store, roomId, added.members),
                                existing |-> existingParticipants]

(***************************************************************************)
(* LeaveRoomUseCase.execute                                                *)
(* [success, error, store, remaining, roomDeleted]                         *)
(***************************************************************************)
LeaveRoomUseCase(store, roomId, participantId) ==
    IF ~roomExists(store, roomId)
    THEN [success |-> FALSE, error |-> ErrRoomNotFound, store |-> store,
          remaining |-> <<>>, roomDeleted |-> FALSE]
    ELSE LET remainingParticipants == removeParticipant(store[roomId], participantId)
         IN  IF isEmpty(remainingParticipants)
             THEN [success |-> TRUE, error |-> NoError,
                   store |-> deleteRoom(putRoom(store, roomId, remainingParticipants),
                                        roomId),
                   remaining |-> remainingParticipants, roomDeleted |-> TRUE]
             ELSE [success |-> TRUE, error |-> NoError,
                   store |-> putRoom(store, roomId, remainingParticipants),
                   remaining |-> remainingParticipants, roomDeleted |-> FALSE]

(***************************************************************************)
(* RelaySignalUseCase.execute: message is [type, from, to, payload]        *)
(* [success, error, recipientId, message]                                  *)
(***************************************************************************)
SignalTypes == {"offer", "answer", "ice-candidate"}

RelayResult(success, error, message) ==
    [success |-> success, error |-> error, recipientId |-> message.to,
     message |-> message]

\* mutant: the sender's membership is not tested
RelaySignalUseCaseNoSenderCheck(store, roomId, message) ==
    IF ~roomExists(store, roomId)
    THEN RelayResult(FALSE, ErrRoomNotFound, message)
    ELSE IF ~hasParticipant(store[roomId], message.to)
    THEN RelayResult(FALSE, ErrRecipientNotInRoom, message)
    ELSE RelayResult(TRUE, NoError, message)

RelaySignalUseCase(store, roomId, message) ==
    IF ~roomExists(store, roomId)
    THEN RelayResult(FALSE, ErrRoomNotFound, message)
    ELSE IF ~hasParticipant(store[roomId], message.from)
    THEN RelayResult(FALSE, ErrSenderNotInRoom, message)
    ELSE IF ~hasParticipant(store[roomId], message.to)
    THEN RelayResult(FALSE, ErrRecipientNotInRoom, message)
    ELSE RelayResult(TRUE, NoError, message)

(***************************************************************************)
(* UpdateDisplayNameUseCase.execute                                        *)
(* [success, error, store, participantId, displayName]                     *)
(***************************************************************************)
RenameFailure(store, participantId, error) ==
    [success |-> FALSE, error |-> error, store |-> store,
     participantId |-> participantId, displayName |-> <<>>]

\* mutant: the length limit is tested on the name as submitted
UpdateDisplayNameUseCaseRawLength(store, roomId, participantId, displayName) ==
    LET trimmedName == Trim(displayName)
    IN  IF Len(trimmedName) = 0
        THEN RenameFailure(store, participantId, ErrEmptyName)
        ELSE IF Len(displayName) > MAX_NAME_LENGTH
        THEN RenameFailure(store, participantId, ErrNameTooLong)
        ELSE IF ~roomExists(store, roomId)
        THEN RenameFailure(store, participantId, ErrRoomNotFound)
        ELSE IF ~hasParticipant(store[roomId], participantId)
        THEN RenameFailure(store, participantId, ErrParticipantNotFound)
        ELSE [success |-> TRUE, error |-> NoError,
              store |-> putRoom(store, roomId,
                            setDisplayName(store[roomId], participantId, trimmedName)),
              participantId |-> participantId, displayName |-> trimmedName]

UpdateDisplayNameUseCase(store, roomId, participantId, displayName) ==
    LET trimmedName == Trim(displayName)
    IN  IF Len(trimmedName) = 0
        THEN RenameFailure(store, participantId, ErrEmptyName)
        ELSE IF Len(trimmedName) > MAX_NAME_LENGTH
        THEN RenameFailure(store, participantId, ErrNameTooLong)
        ELSE IF ~roomExists(store, roomId)
        THEN RenameFailure(store, participantId, ErrRoomNotFound)
        ELSE IF ~hasParticipant(store[roomId], participantId)
        THEN RenameFailure(store, participantId, ErrParticipantNotFound)
        ELSE [success |-> TRUE, error |-> NoError,
              store |-> putRoom(store, roomId,
                            setDisplayName(store[roomId], participantId, trimmedName)),
              participantId |-> participantId, displayName |-> trimmedName]

(***************************************************************************)
(* SignalingController: each handler yields the new store, the use case's  *)
(* result and the sendMessage calls it makes, in order, as <<to, message>> *)
(***************************************************************************)
ErrorMessage(text) == [type |-> "error", message |-> text]

toJSON(p) == [id |-> p.id, displayName |-> p.displayName]

JoinedMessage(clientId, existing) ==
    [type |-> "joined", youId |-> clientId,
     participants |-> [i \in 1..Len(existing) |-> toJSON(existing[i])],
     iceServers |-> iceServers]

ParticipantJoinedMessage(clientId, displayName) ==
    [type |-> "participant-joined",
     participant |-> [id |-> clientId, displayName |-> displayName]]

ParticipantLeftMessage(clientId) == [type |-> "participant-left", id |-> clientId]

DisplayNameUpdatedMessage(participantId, displayName) ==
    [type |-> "display-name-updated", participantId |-> participantId,
     displayName |-> displayName]

\* one message to each participant of a list, in list order
Broadcast(participants, message) ==
    [i \in 1..Len(participants) |-> <<participants[i].id, message>>]

sendError(clientId, text) == << <<clientId, ErrorMessage(text)>> >>

\* mutant: participant-joined goes to every member after the insertion
handleJoinNotifyAll(store, clientId, message) ==
    LET result == JoinRoomUseCase(store, message.roomId, clientId, message.displayName)
    IN  IF ~result.success
        THEN [store |-> result.store, result |-> result,
              calls |-> sendError(clientId, result.error)]
        ELSE [store |-> result.store, result |-> result,
              calls |-> << <<clientId, JoinedMessage(clientId, result.existing)>> >>
                        \o Broadcast(result.store[message.roomId],
                               ParticipantJoinedMessage(clientId, message.displayName))]

\* mutant: the members are not told of the newcomer
handleJoinUnannounced(store, clientId, message) ==
    LET result == JoinRoomUseCase(store, message.roomId, clientId, message.displayName)
    IN  IF ~result.success
        THEN [store |-> result.store, result |-> result,
              calls |-> sendError(clientId, result.error)]
        ELSE [store |-> result.store, result |-> result,
              calls |-> << <<clientId, JoinedMessage(clientId, result.existing)>> >>]

handleJoin(store, clientId, message) ==
    LET result == JoinRoomUseCase(store, message.roomId, clientId, message.displayName)
    IN  IF ~result.success
        THEN [store |-> result.store, result |-> result,
              calls |-> sendError(clientId, result.error)]
        ELSE [store |-> result.store, result |-> result,
              calls |-> << <<clientId, JoinedMessage(clientId, result.existing)>> >>
                        \o Broadcast(result.existing,
                               ParticipantJoinedMessage(clientId, message.displayName))]

\* mutant: a relayed message is also echoed to its sender
handleSignalingMessageEcho(store, clientId, message, roomId) ==
    IF ~Truthy(roomId)
    THEN [store |-> store,
          result |-> RelayResult(FALSE, ErrNotInRoom, message),
          calls |-> sendError(clientId, ErrNotInRoom)]
    ELSE LET result == RelaySignalUseCase(store, Get(roomId), message)
         IN  IF ~result.success
             THEN [store |-> store, result |-> result,
                   calls |-> sendError(clientId, result.error)]
             ELSE [store |-> store, result |-> result,
                   calls |-> << <<result.recipientId, result.message>>,
                                <<clientId, result.message>> >>]

handleSignalingMessage(store, clientId, message, roomId) ==
    IF ~Truthy(roomId)
    THEN [store |-> store,
          result |-> RelayResult(FALSE, ErrNotInRoom, message),
          calls |-> sendError(clientId, ErrNotInRoom)]
    ELSE LET result == RelaySignalUseCase(store, Get(roomId), message)
         IN  IF ~result.success
             THEN [store |-> store, result |-> result,
                   calls |-> sendError(clientId, result.error)]
             ELSE [store |-> store, result |-> result,
                   calls |-> << <<result.recipientId, result.message>> >>]

handleUpdateDisplayName(store, clientId, message, roomId) ==
    IF ~Truthy(roomId)
    THEN [store |-> store,
          result |-> RenameFailure(store, message.from, ErrNotInRoom),
          calls |-> sendError(clientId, ErrNotInRoom)]
    ELSE LET result == UpdateDisplayNameUseCase(store, Get(roomId), message.from,
                                                message.displayName)
         IN  IF ~result.success
             THEN [store |-> store, result |-> result,
                   calls |-> sendError(clientId, result.error)]
             ELSE [store |-> result.store, result |-> result,
                   calls |-> Broadcast(getAllParticipants(result.store[Get(roomId)]),
                                 DisplayNameUpdatedMessage(result.participantId,
                                                           result.displayName))]

\* mutant: the leave frame removes its sender from the rooms
handleLeaveRemoves(store, clientId, message) ==
    [store |-> [r \in DOMAIN store |-> removeParticipant(store[r], clientId)],
     result |-> [success |-> TRUE, error |-> NoError], calls |-> <<>>]

\* handleLeave only logs
handleLeave(store, clientId, message) ==
    [store |-> store, result |-> [success |-> TRUE, error |-> NoError], calls |-> <<>>]

\* mutant: participant-left goes to the members before the removal
handleDisconnectNotifyAll(store, clientId, roomId) ==
    LET result == LeaveRoomUseCase(store, roomId, clientId)
    IN  IF result.success
        THEN [store |-> result.store, result |-> result,
              calls |-> Broadcast(store[roomId], ParticipantLeftMessage(clientId))]
        ELSE [store |-> store, result |-> result, calls |-> <<>>]

handleDisconnect(store, clientId, roomId) ==
    LET result == LeaveRoomUseCase(store, roomId, clientId)
    IN  IF result.success
        THEN [store |-> result.store, result |-> result,
              calls |-> Broadcast(result.remaining, ParticipantLeftMessage(clientId))]
        ELSE [store |-> store, result |-> result, calls |-> <<>>]

\* SignalingController.handleMessage: dispatch on the message type
handleMessage(store, clientId, message, roomId) ==
    IF message.type = "join" THEN handleJoin(store, clientId, message)
    ELSE IF message.type = "update-display-name"
    THEN handleUpdateDisplayName(store, clientId, message, roomId)
    ELSE IF message.type \in SignalTypes
    THEN handleSignalingMessage(store, clientId, message, roomId)
    ELSE handleLeave(store, clientId, message)

(***************************************************************************)
(* WSServer: clients maps a registered connection id to its socket fields  *)
(***************************************************************************)
\* mutant: the message is written whatever the state of the recipient's socket
sendToClientUnchecked(registry, call) ==
    [to |-> call[1], message |-> call[2], delivered |-> TRUE]

\* sendToClient sends only to a registered connection, and warns otherwise
sendToClient(registry, call) ==
    [to |-> call[1], message |-> call[2],
     delivered |-> /\ call[1] \in DOMAIN registry
                   /\ registry[call[1]].readyState = "OPEN"]

Deliver(registry, calls) == [i \in 1..Len(calls) |-> sendToClient(registry, calls[i])]

NoResult == [success |-> FALSE, error |-> NoError]

\* the ExtendedWebSocket of a new connection
NewSocket == [roomId |-> None, isAlive |-> TRUE, readyState |-> "OPEN"]

\* wss.on('connection'): a fresh id, registered with no room
WSConnection ==
    /\ running
    /\ nextId < world.conns
    /\ world.lockstep => \A c \in DOMAIN clients : Truthy(clients[c].roomId)
    /\ nextId' = nextId + 1
    /\ clients' = [c \in DOMAIN clients \cup {nextId + 1} |->
                      IF c = nextId + 1 THEN NewSocket ELSE clients[c]]
    /\ last' = [op |-> "connection", client |-> nextId + 1, message |-> <<>>,
                before |-> rooms, result |-> NoResult, sent |-> <<>>]
    /\ UNCHANGED <<world, rooms, terminated, running>>

\* a connection of a client that the specification does not follow
Connection == WSConnection /\ UNCHANGED clientVars

\* WSServer.handleMessage for a frame that parsed into a client message
WSFrame(c, message) ==
    LET roomId == IF message.type = "join" THEN Some(message.roomId)
                  ELSE clients[c].roomId
        registry == [clients EXCEPT ![c].roomId = roomId]
        out == handleMessage(rooms, c, message, roomId)
    IN  /\ clients' = registry
        /\ rooms' = out.store
        /\ last' = [op |-> message.type, client |-> c, message |-> message,
                    before |-> rooms, result |-> out.result,
                    sent |-> Deliver(registry, out.calls)]
        /\ UNCHANGED <<world, nextId, terminated, running>>

\* a frame of a client that the specification does not follow
WSHandleMessage(c, message) == WSFrame(c, message) /\ UNCHANGED clientVars

ClientJoin ==
    \E c \in DOMAIN clients, roomId \in world.tokens, displayName \in world.names :
        WSHandleMessage(c, [type |-> "join", roomId |-> roomId,
                            displayName |-> displayName])

\* the ids a client writes into the from field of its frames
FromIds(c) == IF world.forge THEN 1..world.conns ELSE {c}

ClientSignal ==
    \E c \in DOMAIN clients, type \in world.kinds, to \in 1..world.conns :
      \E from \in FromIds(c) :
        WSHandleMessage(c, [type |-> type, from |-> from, to |-> to,
                            payload |-> "payload"])

ClientUpdateDisplayName ==
    \E c \in DOMAIN clients, displayName \in world.rawNames :
      \E from \in FromIds(c) :
        WSHandleMessage(c, [type |-> "update-display-name", from |-> from,
                            displayName |-> displayName])

ClientLeave ==
    \E c \in DOMAIN clients :
        WSHandleMessage(c, [type |-> "leave", from |-> c])

\* mutant: a rejected frame gets no reply
wsSendErrorSilent(c, socket, text) == <<>>

\* WSServer.sendError writes to the socket itself, when it is open
wsSendError(c, socket, text) ==
    IF socket.readyState = "OPEN"
    THEN << [to |-> c, message |-> ErrorMessage(text), delivered |-> TRUE] >>
    ELSE <<>>

\* a frame that JSON.parse rejects (the catch block replies with the parse
\* error's text), or one that isClientMessage rejects
ClientBadFrame ==
    \E c \in DOMAIN clients, text \in {ErrJsonSyntax, ErrInvalidFormat} :
        /\ last' = [op |-> "invalid", client |-> c, message |-> <<>>,
                    before |-> rooms,
                    result |-> [success |-> FALSE, error |-> text],
                    sent |-> wsSendError(c, clients[c], text)]
        /\ UNCHANGED <<world, nextId, clients, rooms, terminated, running, clientVars>>

\* client.on('close') -> WSServer.handleDisconnect(client)
WSClose(c, socket) ==
    LET roomId == socket.roomId
        registry == [d \in DOMAIN clients \ {c} |-> clients[d]]
        out == IF Truthy(roomId)
               THEN handleDisconnect(rooms, c, Get(roomId))
               ELSE [store |-> rooms, result |-> NoResult, calls |-> <<>>]
    IN  /\ rooms' = out.store
        /\ clients' = registry
        /\ terminated' = [d \in DOMAIN terminated \ {c} |-> terminated[d]]
        /\ last' = [op |-> "close", client |-> c, message |-> roomId,
                    before |-> rooms, result |-> out.result,
                    sent |-> Deliver(registry, out.calls),
                    terminated |-> c \in DOMAIN terminated]
        /\ UNCHANGED <<world, nextId, running>>

\* the close of a client that the specification does not follow
WSHandleDisconnect(c, socket) == WSClose(c, socket) /\ UNCHANGED clientVars

\* the transport of a registered connection closes
ClientClose == \E c \in DOMAIN clients : WSHandleDisconnect(c, clients[c])

\* the close event of a socket that the heartbeat terminated
TerminatedClose == \E c \in DOMAIN terminated : WSHandleDisconnect(c, terminated[c])

\* client.on('pong')
Pong ==
    \E c \in DOMAIN clients :
        /\ ~clients[c].isAlive
        /\ clients' = [clients EXCEPT ![c].isAlive = TRUE]
        /\ last' = [op |-> "pong", client |-> c, message |-> <<>>,
                    before |-> rooms, result |-> NoResult, sent |-> <<>>]
        /\ UNCHANGED <<world, nextId, rooms, terminated, running, clientVars>>

\* the keys of the clients Map in insertion order: ids are handed out in
\* the order of the connections
InsertionOrder(ids) ==
    [i \in 1..Cardinality(ids) |->
        CHOOSE c \in ids : Cardinality({d \in ids : d < c}) = i - 1]

\* mutant: a connection that did not answer is pinged again and kept
HeartbeatVisitKeepsDead(g, c) ==
    [g EXCEPT !.clients[c].isAlive = FALSE,
              !.trace = Append(@, [op |-> "ping", id |-> c])]

\* the forEach callback of the heartbeat timer, for one entry of the Map
HeartbeatVisit(g, c) ==
    IF ~g.clients[c].isAlive
    THEN [clients |-> [d \in DOMAIN g.clients \ {c} |-> g.clients[d]],
          terminated |-> [d \in DOMAIN g.terminated \cup {c} |->
                             IF d = c THEN g.clients[c] ELSE g.terminated[d]],
          trace |-> Append(g.trace, [op |-> "terminate", id |-> c])]
    ELSE [g EXCEPT !.clients[c].isAlive = FALSE,
                   !.trace = Append(@, [op |-> "ping", id |-> c])]

RECURSIVE HeartbeatRound(_, _)
HeartbeatRound(g, order) ==
    IF order = <<>> THEN g
    ELSE HeartbeatRound(HeartbeatVisit(g, Head(order)), Tail(order))

\* one tick of the interval that startHeartbeat sets
startHeartbeat(registry, dead) ==
    HeartbeatRound([clients |-> registry, terminated |-> dead, trace |-> <<>>],
                   InsertionOrder(DOMAIN registry))

HeartbeatTick ==
    /\ running
    /\ clients # <<>>
    /\ LET g == startHeartbeat(clients, terminated)
       IN  /\ clients' = g.clients
           /\ terminated' = g.terminated
           /\ last' = [op |-> "heartbeat", client |-> 0, message |-> <<>>,
                       before |-> rooms,
                       result |-> [success |-> TRUE, error |-> NoError,
                                   trace |-> g.trace],
                       sent |-> <<>>]
    /\ UNCHANGED <<world, nextId, rooms, running, clientVars>>

\* WSServer.close: the timer is cleared, every registered socket starts its
\* closing handshake and the server stops accepting connections
ServerClose ==
    /\ running
    /\ running' = FALSE
    /\ clients' = [c \in DOMAIN clients |-> [clients[c] EXCEPT !.readyState = "CLOSING"]]
    /\ last' = [op |-> "shutdown", client |-> 0, message |-> <<>>,
                before |-> rooms, result |-> NoResult, sent |-> <<>>]
    /\ UNCHANGED <<world, nextId, rooms, terminated, clientVars>>

(***************************************************************************)
(* Worlds: what the clients of a run may send.  Connection ids are fresh   *)
(* uuids, so a run's ids can be renamed in the order of the connections'   *)
(* first valid join: a lockstep world accepts a connection only when every *)
(* registered connection has declared a room.                              *)
(***************************************************************************)
\* several room ids, among them one the Room constructor rejects
RoomsWorld ==
    [conns |-> RoomsConns, tokens |-> {R1, R2, Blank}, names |-> {None},
     rawNames |-> {Spaces}, kinds |-> {"offer"}, forge |-> FALSE,
     lockstep |-> FALSE]

\* one room and more connections than it holds
WideWorld ==
    [conns |-> MAX_PARTICIPANTS + ExtraConns, tokens |-> {R1}, names |-> {None},
     rawNames |-> {Spaces}, kinds |-> {"offer"}, forge |-> FALSE,
     lockstep |-> TRUE]

\* every signaling type, with any connection id as from and to
RelayWorld ==
    [conns |-> RelayConns, tokens |-> {R1, Blank}, names |-> {None},
     rawNames |-> {Spaces}, kinds |-> SignalTypes, forge |-> TRUE,
     lockstep |-> TRUE]

\* display names at join and by update, and the empty room id
NamesWorld ==
    [conns |-> NamesConns, tokens |-> {R1, Blank, Empty},
     names |-> {None, Some(NameA), Some(LongName(MAX_NAME_LENGTH + 1))},
     rawNames |-> {NameB, PaddedB, Spaces, LongName(MAX_NAME_LENGTH),
                   Padded(LongName(MAX_NAME_LENGTH)),
                   LongName(MAX_NAME_LENGTH + 1)},
     kinds |-> {"offer"}, forge |-> TRUE, lockstep |-> FALSE]

\* the heartbeat timer and the shutdown, with one room and a failing room id
BeatWorld ==
    [conns |-> BeatConns, tokens |-> {R1, Blank}, names |-> {None},
     rawNames |-> {Spaces}, kinds |-> {"offer"}, forge |-> FALSE,
     lockstep |-> FALSE]

\* a full room, a connection that it refused, and updates of display names
\* under any connection id
CrowdWorld ==
    [conns |-> MAX_PARTICIPANTS + ExtraConns, tokens |-> {R1},
     names |-> {Some(NameB)}, rawNames |-> {NameB}, kinds |-> {"offer"},
     forge |-> TRUE, lockstep |-> TRUE]

\* no browser client is followed
NoEvent == [op |-> "none", client |-> 0, peer |-> 0, found |-> FALSE, returned |-> "none"]

NoClients ==
    /\ browsers = {}
    /\ sessions = <<>>
    /\ wire = <<>>
    /\ managers = <<>>
    /\ event = NoEvent
    /\ transport = <<>>

ServerInit(w) ==
    /\ world = w
    /\ nextId = 0
    /\ clients = <<>>
    /\ rooms = <<>>
    /\ terminated = <<>>
    /\ running = TRUE
    /\ last = [op |-> "init", client |-> 0, message |-> <<>>, before |-> <<>>,
               result |-> NoResult, sent |-> <<>>]

InitIn(w) == ServerInit(w) /\ NoClients

Init == InitIn(RoomsWorld)

InitWide == InitIn(WideWorld)

InitRelay == InitIn(RelayWorld)

InitNames == InitIn(NamesWorld)

InitBeat == InitIn(BeatWorld)

InitCrowd == InitIn(CrowdWorld)

Next ==
    \/ Connection
    \/ ClientJoin
    \/ ClientSignal
    \/ ClientUpdateDisplayName
    \/ ClientLeave
    \/ ClientBadFrame
    \/ ClientClose

Spec == Init /\ [][Next]_vars

SpecWide == InitWide /\ [][Next]_vars

SpecRelay == InitRelay /\ [][Next]_vars

SpecNames == InitNames /\ [][Next]_vars

SpecCrowd == InitCrowd /\ [][Next]_vars

\* the gateway with its timer and its shutdown: a terminated socket's close
\* event runs the same handleDisconnect as a transport close, so the
\* specifications above follow connections up to their close events only
NextBeat ==
    \/ Connection
    \/ ClientJoin
    \/ ClientSignal
    \/ ClientUpdateDisplayName
    \/ ClientLeave
    \/ ClientBadFrame
    \/ ClientClose
    \/ Pong
    \/ HeartbeatTick
    \/ TerminatedClose
    \/ ServerClose

SpecBeat == InitBeat /\ [][NextBeat]_vars

(***************************************************************************)
(* Browser clients.  sessions[<<a, p>>] is the PeerConnectionState that    *)
(* client a's RTCAdapter holds for peer p.  The awaited RTCPeerConnection  *)
(* calls of a session are the connection's operations chain: each runs to  *)
(* completion in the order in which it was called, and the code that       *)
(* awaits it continues when it settles.  Their outcomes follow the WebRTC  *)
(* signaling state machine, in which setRemoteDescription of an offer in   *)
(* have-local-offer rolls the local offer back.  wire[<<a, p>>] holds the  *)
(* offers and answers from a to p that the server has yet to deliver: the  *)
(* server relays the frames of one connection in the order it reads them.  *)
(***************************************************************************)
Operation(op, type) == [op |-> op, type |-> type]

\* RTCAdapter.createPeerConnection's new PeerConnectionState, with counters
\* of what the session has done since
NewSession ==
    [signalingState |-> "stable", makingOffer |-> FALSE, ignoreOffer |-> FALSE,
     chain |-> <<>>, started |-> FALSE, outstanding |-> FALSE,
     rolledBack |-> FALSE, glare |-> FALSE, overlapped |-> FALSE,
     offersSent |-> 0, ignored |-> 0,
     answersSent |-> 0, asOfferer |-> 0, asAnswerer |-> 0]

createPeerConnection(map, a, p) ==
    IF <<a, p>> \in DOMAIN map THEN map
    ELSE [k \in DOMAIN map \cup {<<a, p>>} |->
             IF k = <<a, p>> THEN NewSession ELSE map[k]]

OfferMessage(to, from) == [type |-> "offer", to |-> to, from |-> from]

AnswerMessage(to, from) == [type |-> "answer", to |-> to, from |-> from]

\* mutant: no client is polite
isPoliteNever(localParticipantId, peerId) == FALSE

\* RTCAdapter.handleOffer: the smaller id is the polite one
isPolite(localParticipantId, peerId) == localParticipantId < peerId

offerCollision(s) == s.makingOffer \/ s.signalingState # "stable"

\* the onnegotiationneeded handler after each of its two awaits: the offer
\* it sets locally is not sent
runNegotiation(s) ==
    LET o == Head(s.chain)
        rest == Tail(s.chain)
        state == s.signalingState
    IN  IF o.op = "createOffer" /\ state = "stable"
        THEN [s EXCEPT !.chain = Append(rest, Operation("setLocalDescription",
                                                        "negotiation"))]
        ELSE IF o.op = "setLocalDescription"
                /\ state \in {"stable", "have-local-offer"}
        THEN [s EXCEPT !.chain = rest, !.makingOffer = FALSE,
                       !.signalingState = "have-local-offer"]
        ELSE [s EXCEPT !.chain = rest, !.makingOffer = FALSE]

\* the head of a session's operations chain runs, and the code awaiting it
\* continues: [session, out] with the messages it sends
runOperation(s, a, p) ==
    LET o == Head(s.chain)
        rest == Tail(s.chain)
        state == s.signalingState
    IN  IF o.type = "negotiation"
        THEN [session |-> runNegotiation(s), out |-> <<>>]
        ELSE IF o.op = "createOffer"
        THEN \* RTCAdapter.createOffer, after connection.createOffer()
             IF state \in {"stable", "have-local-offer"}
             THEN [session |-> [s EXCEPT !.chain =
                                   Append(rest, Operation("setLocalDescription", "offer"))],
                   out |-> <<>>]
             ELSE [session |-> [s EXCEPT !.chain = rest, !.makingOffer = FALSE],
                   out |-> <<>>]
        ELSE IF o.op = "setLocalDescription" /\ o.type = "offer"
        THEN \* RTCAdapter.createOffer returns, RoomManager sends the offer
             IF state \in {"stable", "have-local-offer"}
             THEN [session |-> [s EXCEPT !.chain = rest, !.makingOffer = FALSE,
                                         !.signalingState = "have-local-offer",
                                         !.outstanding = TRUE,
                                         !.offersSent = @ + 1],
                   out |-> <<OfferMessage(p, a)>>]
             ELSE [session |-> [s EXCEPT !.chain = rest, !.makingOffer = FALSE],
                   out |-> <<>>]
        ELSE IF o.op = "setRemoteDescription" /\ o.type = "offer"
        THEN \* RTCAdapter.handleOffer, after setRemoteDescription(offer)
             [session |-> [s EXCEPT !.chain = Append(rest, Operation("createAnswer", "answer")),
                                    !.signalingState = "have-remote-offer",
                                    !.rolledBack = @ \/ state = "have-local-offer",
                                    !.outstanding = FALSE],
              out |-> <<>>]
        ELSE IF o.op = "createAnswer"
        THEN IF state = "have-remote-offer"
             THEN [session |-> [s EXCEPT !.chain =
                                   Append(rest, Operation("setLocalDescription", "answer"))],
                   out |-> <<>>]
             ELSE [session |-> [s EXCEPT !.chain = rest], out |-> <<>>]
        ELSE IF o.op = "setLocalDescription"
        THEN \* RTCAdapter.handleOffer returns, RoomManager sends the answer
             IF state = "have-remote-offer"
             THEN [session |-> [s EXCEPT !.chain = rest,
                                         !.signalingState = "stable",
                                         !.answersSent = @ + 1,
                                         !.asAnswerer = @ + 1],
                   out |-> <<AnswerMessage(p, a)>>]
             ELSE [session |-> [s EXCEPT !.chain = rest], out |-> <<>>]
        ELSE \* RTCAdapter.handleAnswer, after setRemoteDescription(answer)
             IF state = "have-local-offer"
             THEN [session |-> [s EXCEPT !.chain = rest,
                                         !.signalingState = "stable",
                                         !.asOfferer = @ + 1],
                   out |-> <<>>]
             ELSE [session |-> [s EXCEPT !.chain = rest], out |-> <<>>]

\* the remote offers of a session that are being applied or answered
PendingAnswers(s) ==
    Cardinality({i \in 1..Len(s.chain) :
                    \/ s.chain[i].op = "createAnswer"
                    \/ s.chain[i] = Operation("setRemoteDescription", "offer")
                    \/ s.chain[i] = Operation("setLocalDescription", "answer")})

\* mutant: no offer is ignored
handleOfferTakesAll(s, a, p) ==
    [s EXCEPT !.ignoreOffer = FALSE, !.glare = @ \/ s.outstanding,
              !.overlapped = @ \/ PendingAnswers(s) > 0,
              !.chain = Append(@, Operation("setRemoteDescription", "offer"))]

\* RoomManager.handleOffer with RTCAdapter.handleOffer up to its first await
handleOffer(s, a, p) ==
    LET ignore == ~isPolite(a, p) /\ offerCollision(s)
        seen == [s EXCEPT !.ignoreOffer = ignore, !.glare = @ \/ s.outstanding]
    IN  IF ignore
        THEN [seen EXCEPT !.ignored = @ + 1]
        ELSE [seen EXCEPT !.overlapped = @ \/ PendingAnswers(s) > 0,
                          !.chain = Append(@, Operation("setRemoteDescription", "offer"))]

\* RoomManager.handleAnswer with RTCAdapter.handleAnswer up to its await
handleAnswer(s) ==
    [s EXCEPT !.chain = Append(@, Operation("setRemoteDescription", "answer")),
              !.outstanding = FALSE]

\* RoomManager.createPeerConnectionAndOffer up to the first await of
\* RTCAdapter.createOffer; handleJoined calls it once for a listed peer
CreatePeerConnectionAndOffer ==
    \E a \in browsers, p \in browsers :
        LET map == createPeerConnection(sessions, a, p)
        IN  /\ a # p
            /\ ~map[<<a, p>>].started
            /\ sessions' = [map EXCEPT ![<<a, p>>].started = TRUE,
                                       ![<<a, p>>].makingOffer = TRUE,
                                       ![<<a, p>>].chain =
                                           Append(@, Operation("createOffer", "offer"))]
            /\ UNCHANGED <<serverVars, joinedVars, wire>>

RunOperation ==
    \E k \in DOMAIN sessions :
        /\ sessions[k].chain # <<>>
        /\ LET done == runOperation(sessions[k], k[1], k[2])
           IN  /\ sessions' = [sessions EXCEPT ![k] = done.session]
               /\ wire' = [wire EXCEPT ![k] = @ \o done.out]
        /\ UNCHANGED <<serverVars, joinedVars>>

\* the signaling connection of client a hands it an offer from p
ReceiveOffer ==
    \E a \in browsers, p \in browsers :
        /\ a # p
        /\ wire[<<p, a>>] # <<>>
        /\ Head(wire[<<p, a>>]).type = "offer"
        /\ LET map == createPeerConnection(sessions, a, p)
           IN  sessions' = [map EXCEPT ![<<a, p>>] = handleOffer(@, a, p)]
        /\ wire' = [wire EXCEPT ![<<p, a>>] = Tail(@)]
        /\ UNCHANGED <<serverVars, joinedVars>>

\* the signaling connection of client a hands it an answer from p
ReceiveAnswer ==
    \E a \in browsers, p \in browsers :
        /\ a # p
        /\ wire[<<p, a>>] # <<>>
        /\ Head(wire[<<p, a>>]).type = "answer"
        /\ <<a, p>> \in DOMAIN sessions
        /\ sessions' = [sessions EXCEPT ![<<a, p>>] = handleAnswer(@)]
        /\ wire' = [wire EXCEPT ![<<p, a>>] = Tail(@)]
        /\ UNCHANGED <<serverVars, joinedVars>>

\* two clients that are members of one room, each with its local stream
InitGlare ==
    /\ ServerInit(RoomsWorld)
    /\ browsers \in {{a, b} : a \in 1..GlareIds, b \in 1..GlareIds} \ {{a} : a \in 1..GlareIds}
    /\ sessions = <<>>
    /\ wire = [k \in {<<a, p>> : a \in browsers, p \in browsers} |-> <<>>]
    /\ managers = <<>>
    /\ event = NoEvent
    /\ transport = <<>>

NextGlare ==
    \/ CreatePeerConnectionAndOffer
    \/ RunOperation
    \/ ReceiveOffer
    \/ ReceiveAnswer

SpecGlare == InitGlare /\ [][NextGlare]_vars

(***************************************************************************)
(* One RTCAdapter under any caller of its interface.  Client LocalId holds *)
(* sessions for the peers of AdapterPeers, one with a smaller and one with *)
(* a larger id.  The caller may call createPeerConnection, createOffer,    *)
(* handleOffer, handleAnswer, closePeerConnection and closeAllConnections  *)
(* in any order; the browser runs the pending operations and fires         *)
(* connectionstatechange and negotiationneeded.  negotiationneeded fires   *)
(* for a connection only while its signaling state is stable and its       *)
(* operations chain is empty (addLocalStream's addTrack is what asks for   *)
(* it).  event is the handler that ran last: found says whether it found a *)
(* session for the peer, returned what it gave back before any await.      *)
(***************************************************************************)
\* how many offers of its own the adapter is followed for
MaxOffers == 2

\* how many offers of its peers the adapter is followed for
MaxRemoteOffers == 1

LocalId == 2

AdapterPeers == {1, 3}

Event(op, a, p) ==
    [op |-> op, client |-> a, peer |-> p, found |-> <<a, p>> \in DOMAIN sessions,
     returned |-> "none"]

\* the offer attempts of a session that have begun and not ended: each is
\* at its createOffer or at its setLocalDescription
OfferAttempts(s) ==
    Cardinality({i \in 1..Len(s.chain) :
                    /\ s.chain[i].op \in {"createOffer", "setLocalDescription"}
                    /\ s.chain[i].type \in {"offer", "negotiation"}})

\* what the sessions of a map have done, added up
RECURSIVE Total(_, _, _)
Total(count(_), map, keys) ==
    IF keys = {} THEN 0
    ELSE LET k == CHOOSE j \in keys : TRUE
         IN  count(map[k]) + Total(count, map, keys \ {k})

OffersBegun(s) == s.offersSent + OfferAttempts(s)

OffersIgnored(s) == s.ignored

OffersTaken(s) == s.answersSent + PendingAnswers(s)

Exchanges(s) == s.asOfferer + s.asAnswerer

Begun(count(_)) == Total(count, sessions, DOMAIN sessions)

\* RTCAdapter.createOffer up to its first await
createOffer(s) ==
    [s EXCEPT !.makingOffer = TRUE,
              !.chain = Append(@, Operation("createOffer", "offer"))]

\* onnegotiationneeded up to its first await
onnegotiationneeded(s) ==
    [s EXCEPT !.makingOffer = TRUE,
              !.chain = Append(@, Operation("createOffer", "negotiation"))]

\* mutant: every session of the client is discarded
closePeerConnectionClearsAll(map, a, p) ==
    [k \in {j \in DOMAIN map : j[1] # a} |-> map[k]]

\* RTCAdapter.closePeerConnection: close() and delete, when there is a state
closePeerConnection(map, a, p) ==
    [k \in DOMAIN map \ {<<a, p>>} |-> map[k]]

\* RTCAdapter.closeAllConnections: close() each, then clear()
closeAllConnections(map, a) ==
    [k \in {j \in DOMAIN map : j[1] # a} |-> map[k]]

\* connection.onconnectionstatechange, after the callback
onconnectionstatechange(map, a, p, connectionState) ==
    IF connectionState \in {"failed", "closed"}
    THEN closePeerConnection(map, a, p)
    ELSE map

ConnectionStates == {"connected", "failed", "closed"}

AdapterCreatePeerConnection ==
    \E p \in AdapterPeers :
        /\ sessions' = createPeerConnection(sessions, LocalId, p)
        /\ event' = Event("createPeerConnection", LocalId, p)
        /\ UNCHANGED <<serverVars, browsers, wire, managers, transport>>

\* createOffer throws when it finds no state for the peer
AdapterCreateOffer ==
    \E p \in AdapterPeers :
        LET k == <<LocalId, p>>
        IN  /\ Begun(OffersBegun) < MaxOffers
            /\ sessions' = IF k \in DOMAIN sessions
                           THEN [sessions EXCEPT ![k] = createOffer(@)]
                           ELSE sessions
            /\ event' = [Event("createOffer", LocalId, p)
                            EXCEPT !.returned = IF k \in DOMAIN sessions
                                                THEN "pending" ELSE "threw"]
            /\ UNCHANGED <<serverVars, browsers, wire, managers, transport>>

AdapterHandleOffer ==
    \E p \in AdapterPeers :
        LET k == <<LocalId, p>>
        IN  /\ k \in DOMAIN sessions
            /\ Begun(OffersIgnored) < MaxRemoteOffers
            /\ Begun(OffersTaken) < MaxRemoteOffers
            /\ sessions' = [sessions EXCEPT ![k] = handleOffer(@, LocalId, p)]
            /\ event' = [Event("handleOffer", LocalId, p)
                            EXCEPT !.returned = IF sessions'[k].ignoreOffer
                                                THEN "empty" ELSE "pending"]
            /\ UNCHANGED <<serverVars, browsers, wire, managers, transport>>

AdapterHandleAnswer ==
    \E p \in AdapterPeers :
        LET k == <<LocalId, p>>
        IN  /\ k \in DOMAIN sessions
            /\ sessions[k].signalingState = "have-local-offer"
            /\ Operation("setRemoteDescription", "answer") \notin Range(sessions[k].chain)
            /\ sessions' = [sessions EXCEPT ![k] = handleAnswer(@)]
            /\ event' = Event("handleAnswer", LocalId, p)
            /\ UNCHANGED <<serverVars, browsers, wire, managers, transport>>

\* close() fires no event by the standard; reentrant is a browser whose
\* close() runs onconnectionstatechange before it returns
AdapterClosePeerConnection ==
    \E p \in AdapterPeers, reentrant \in BOOLEAN :
        /\ sessions' =
              IF reentrant /\ <<LocalId, p>> \in DOMAIN sessions
              THEN closePeerConnection(
                       onconnectionstatechange(sessions, LocalId, p, "closed"),
                       LocalId, p)
              ELSE closePeerConnection(sessions, LocalId, p)
        /\ event' = Event("closePeerConnection", LocalId, p)
        /\ UNCHANGED <<serverVars, browsers, wire, managers, transport>>

AdapterCloseAllConnections ==
    /\ sessions' = closeAllConnections(sessions, LocalId)
    /\ event' = Event("closeAllConnections", LocalId, 0)
    /\ UNCHANGED <<serverVars, browsers, wire, managers, transport>>

\* the connection of an existing session changes its connection state
ConnectionStateChange ==
    \E k \in DOMAIN sessions, connectionState \in ConnectionStates :
        /\ sessions' = onconnectionstatechange(sessions, k[1], k[2], connectionState)
        /\ event' = [Event("connectionstatechange", k[1], k[2])
                        EXCEPT !.returned = connectionState]
        /\ UNCHANGED <<serverVars, browsers, wire, managers, transport>>

NegotiationNeeded ==
    \E k \in DOMAIN sessions :
        /\ sessions[k].signalingState = "stable"
        /\ sessions[k].chain = <<>>
        /\ Begun(Exchanges) < MaxOffers
        /\ sessions' = [sessions EXCEPT ![k] = onnegotiationneeded(@)]
        /\ event' = Event("negotiationneeded", k[1], k[2])
        /\ UNCHANGED <<serverVars, browsers, wire, managers, transport>>

\* an awaited call settles and the adapter's method continues; what the
\* method returns goes to its caller
AdapterRunOperation ==
    \E k \in DOMAIN sessions :
        /\ sessions[k].chain # <<>>
        /\ LET done == runOperation(sessions[k], k[1], k[2])
           IN  /\ sessions' = [sessions EXCEPT ![k] = done.session]
               /\ event' = [Event(Head(sessions[k].chain).op, k[1], k[2])
                               EXCEPT !.returned =
                                   IF done.out = <<>> THEN "none"
                                   ELSE done.out[1].type]
        /\ UNCHANGED <<serverVars, browsers, wire, managers, transport>>

InitAdapter ==
    /\ ServerInit(RoomsWorld)
    /\ browsers = {LocalId}
    /\ sessions = <<>>
    /\ wire = <<>>
    /\ managers = <<>>
    /\ event = NoEvent
    /\ transport = <<>>

NextAdapter ==
    \/ AdapterCreatePeerConnection
    \/ AdapterCreateOffer
    \/ AdapterHandleOffer
    \/ AdapterHandleAnswer
    \/ AdapterClosePeerConnection
    \/ AdapterCloseAllConnections
    \/ ConnectionStateChange
    \/ NegotiationNeeded
    \/ AdapterRunOperation

SpecAdapter == InitAdapter /\ [][NextAdapter]_vars

(***************************************************************************)
(* One WebSocketAdapter.  transport[a] is the adapter of client a: ws is   *)
(* the state of the socket the adapter holds ("none" for null), others     *)
(* counts the sockets it no longer holds whose handlers can still run,     *)
(* timer says that the timeout id it holds is pending, timers counts the   *)
(* pending timeouts whose id it has overwritten.  Every socket that        *)
(* connect creates carries the onopen and onclose handlers until it has    *)
(* closed.                                                                 *)
(***************************************************************************)
\* how many times the adapter's user calls connect
MaxConnects == 2

maxReconnectAttempts == 5

Live == {"connecting", "open", "closing"}

NewTransport ==
    [ws |-> "none", reconnectAttempts |-> 0, timer |-> FALSE, timers |-> 0,
     others |-> [state \in Live |-> 0], connects |-> 0]

\* the adapter lets go of the socket it holds
Release(t) ==
    IF t.ws \in Live THEN [t EXCEPT !.others[t.ws] = @ + 1] ELSE t

\* WebSocketAdapter.connect up to the return of its promise
connect(t) == [Release(t) EXCEPT !.ws = "connecting"]

\* ws.onopen
onopen(t) == [t EXCEPT !.reconnectAttempts = 0]

\* mutant: the attempts are not limited
attemptReconnectUnlimited(t) ==
    [t EXCEPT !.reconnectAttempts = @ + 1,
              !.timers = @ + (IF t.timer THEN 1 ELSE 0),
              !.timer = TRUE]

\* WebSocketAdapter.attemptReconnect, called by every socket's onclose
attemptReconnect(t) ==
    IF t.reconnectAttempts >= maxReconnectAttempts THEN t
    ELSE [t EXCEPT !.reconnectAttempts = @ + 1,
                   !.timers = @ + (IF t.timer THEN 1 ELSE 0),
                   !.timer = TRUE]

\* WebSocketAdapter.disconnect: the close event of the socket comes later
disconnect(t) ==
    LET cleared == [t EXCEPT !.timer = FALSE]
    IN  IF t.ws = "none" THEN cleared
        ELSE IF t.ws \in {"connecting", "open"}
        THEN [cleared EXCEPT !.ws = "none", !.others["closing"] = @ + 1]
        ELSE [Release(cleared) EXCEPT !.ws = "none"]

\* RoomManager.joinRoom calls connect
TransportConnect ==
    \E a \in DOMAIN transport :
        /\ transport[a].connects < MaxConnects
        /\ transport' = [transport EXCEPT ![a] = [connect(@) EXCEPT !.connects = @ + 1]]
        /\ event' = Event("connect", a, 0)
        /\ UNCHANGED <<serverVars, browsers, sessions, wire, managers>>

\* the socket the adapter holds opens, or one it has let go of
SocketOpen ==
    \E a \in DOMAIN transport, held \in BOOLEAN :
        LET t == transport[a]
        IN  /\ IF held THEN t.ws = "connecting" ELSE t.others["connecting"] > 0
            /\ transport' = [transport EXCEPT ![a] =
                   onopen(IF held THEN [t EXCEPT !.ws = "open"]
                          ELSE [t EXCEPT !.others["connecting"] = @ - 1,
                                         !.others["open"] = @ + 1])]
            /\ event' = Event("open", a, 0)
            /\ UNCHANGED <<serverVars, browsers, sessions, wire, managers>>

\* a socket closes: it failed to connect, the connection was lost, or its
\* closing handshake ended
SocketClose ==
    \E a \in DOMAIN transport, held \in BOOLEAN, state \in Live :
        LET t == transport[a]
        IN  /\ IF held THEN t.ws = state ELSE t.others[state] > 0
            /\ transport' = [transport EXCEPT ![a] =
                   attemptReconnect(IF held THEN [t EXCEPT !.ws = "closed"]
                                    ELSE [t EXCEPT !.others[state] = @ - 1])]
            /\ event' = Event("close", a, 0)
            /\ UNCHANGED <<serverVars, browsers, sessions, wire, managers>>

\* a reconnect timeout fires and calls connect
TimerFires ==
    \E a \in DOMAIN transport, held \in BOOLEAN :
        LET t == transport[a]
        IN  /\ IF held THEN t.timer ELSE t.timers > 0
            /\ transport' = [transport EXCEPT ![a] =
                   connect(IF held THEN [t EXCEPT !.timer = FALSE]
                           ELSE [t EXCEPT !.timers = @ - 1])]
            /\ event' = Event("timeout", a, 0)
            /\ UNCHANGED <<serverVars, browsers, sessions, wire, managers>>

\* RoomManager.leaveRoom calls disconnect
TransportDisconnect ==
    \E a \in DOMAIN transport :
        /\ transport[a].ws # "none" \/ transport[a].timer
        /\ transport' = [transport EXCEPT ![a] = disconnect(@)]
        /\ event' = Event("disconnect", a, 0)
        /\ UNCHANGED <<serverVars, browsers, sessions, wire, managers>>

InitTransport ==
    /\ ServerInit(RoomsWorld)
    /\ browsers = {LocalId}
    /\ sessions = <<>>
    /\ wire = <<>>
    /\ managers = <<>>
    /\ event = NoEvent
    /\ transport = [a \in browsers |-> NewTransport]

NextTransport ==
    \/ TransportConnect
    \/ SocketOpen
    \/ SocketClose
    \/ TimerFires
    \/ TransportDisconnect

SpecTransport == InitTransport /\ [][NextTransport]_vars

(***************************************************************************)
(* A room of browser clients behind the gateway.  managers[a] is the       *)
(* RoomManager of the client whose connection the gateway named a, and     *)
(* wire[<<Server, a>>] holds the frames the gateway has sent to a that a   *)
(* has yet to handle, in the order of the sends.  A frame a client sends   *)
(* is handled by the gateway in the step that sends it.  The connection of *)
(* a session asks for a negotiation only in the stable state with an empty *)
(* operations chain and something left to negotiate: the tracks that       *)
(* addLocalStream adds are followed by createOffer or handleOffer in the   *)
(* same task, and the exchange these start negotiates them.                *)
(***************************************************************************)
MeshClients == 3

\* one room, and clients that connect one after the other
MeshWorld ==
    [conns |-> MeshClients, tokens |-> {R1}, names |-> {None},
     rawNames |-> {Spaces}, kinds |-> {"offer"}, forge |-> FALSE,
     lockstep |-> TRUE]

Server == 0

\* the fields of a RoomManager before joinRoom, with the state of its socket
\* and whether joinRoom is at its delay
NewManager ==
    [currentRoomId |-> None, room |-> None, localStream |-> FALSE,
     remoteStreams |-> {}, ws |-> "none", awaiting |-> FALSE]

\* the ids in the participants Map of a client's Room
Participants(m) == IF m.room = None THEN {} ELSE Get(m.room).participants

\* the clients whose socket hands frames to onmessage
Listening(ms) == {a \in DOMAIN ms : ms[a].ws = "open"}

\* the frames the gateway sent, appended to the inboxes of their recipients
RECURSIVE Received(_, _, _)
Received(w, listening, sent) ==
    IF sent = <<>> THEN w
    ELSE LET m == Head(sent)
             got == IF m.delivered /\ m.to \in listening
                    THEN [w EXCEPT ![<<Server, m.to>>] = Append(@, m.message)]
                    ELSE w
         IN  Received(got, listening, Tail(sent))

\* RoomManager.createPeerConnectionAndOffer up to the first await of
\* RTCAdapter.createOffer
createPeerConnectionAndOffer(m, map, a, peerId) ==
    IF ~m.localStream \/ m.room = None THEN map
    ELSE [createPeerConnection(map, a, peerId) EXCEPT ![<<a, peerId>>] = createOffer(@)]

\* message.participants.forEach(p => createPeerConnectionAndOffer(p.id))
RECURSIVE forEachParticipant(_, _, _, _)
forEachParticipant(m, map, a, participants) ==
    IF participants = <<>> THEN map
    ELSE forEachParticipant(m, createPeerConnectionAndOffer(m, map, a, Head(participants).id),
                            a, Tail(participants))

\* mutant: the joined client offers to nobody
handleJoinedSilent(m, map, a, message) ==
    IF ~Truthy(m.currentRoomId) THEN [manager |-> m, sessions |-> map]
    ELSE [manager |->
             [m EXCEPT !.room = Some([id |-> Get(m.currentRoomId),
                                      localParticipantId |-> message.youId,
                                      participants |-> {message.youId} \cup
                                          {message.participants[i].id :
                                              i \in DOMAIN message.participants}])],
          sessions |-> map]

\* RoomManager.handleJoined
handleJoined(m, map, a, message) ==
    IF ~Truthy(m.currentRoomId) THEN [manager |-> m, sessions |-> map]
    ELSE LET room == [id |-> Get(m.currentRoomId),
                      localParticipantId |-> message.youId,
                      participants |-> {message.youId} \cup
                          {message.participants[i].id :
                              i \in DOMAIN message.participants}]
             joined == [m EXCEPT !.room = Some(room)]
         IN  [manager |-> joined,
              sessions |-> forEachParticipant(joined, map, a, message.participants)]

\* mutant: a member offers to the newcomer as well
handleParticipantJoinedOffers(m, map, a, message) ==
    IF m.room = None THEN [manager |-> m, sessions |-> map]
    ELSE [manager |-> [m EXCEPT !.room = Some([Get(m.room) EXCEPT !.participants =
                                                  @ \cup {message.participant.id}])],
          sessions |-> createPeerConnectionAndOffer(m, map, a, message.participant.id)]

\* RoomManager.handleParticipantJoined
handleParticipantJoined(m, map, a, message) ==
    IF m.room = None THEN [manager |-> m, sessions |-> map]
    ELSE [manager |-> [m EXCEPT !.room = Some([Get(m.room) EXCEPT !.participants =
                                                  @ \cup {message.participant.id}])],
          sessions |-> map]

\* mutant: the session of the participant that left is kept
handleParticipantLeftKeepsSession(m, map, a, message) ==
    IF m.room = None THEN [manager |-> m, sessions |-> map]
    ELSE [manager |-> [m EXCEPT !.room = Some([Get(m.room) EXCEPT !.participants =
                                                  @ \ {message.id}]),
                                !.remoteStreams = @ \ {message.id}],
          sessions |-> map]

\* RoomManager.handleParticipantLeft
handleParticipantLeft(m, map, a, message) ==
    IF m.room = None THEN [manager |-> m, sessions |-> map]
    ELSE [manager |-> [m EXCEPT !.room = Some([Get(m.room) EXCEPT !.participants =
                                                  @ \ {message.id}]),
                                !.remoteStreams = @ \ {message.id}],
          sessions |-> closePeerConnection(map, a, message.id)]

\* RoomManager.handleOffer up to the first await of RTCAdapter.handleOffer
handleOfferMessage(m, map, a, message) ==
    [manager |-> m,
     sessions |-> IF m.room = None \/ ~m.localStream THEN map
                  ELSE [createPeerConnection(map, a, message.from)
                           EXCEPT ![<<a, message.from>>] = handleOffer(@, a, message.from)]]

\* RoomManager.handleAnswer up to the await of RTCAdapter.handleAnswer,
\* which throws when there is no connection for the sender
handleAnswerMessage(m, map, a, message) ==
    [manager |-> m,
     sessions |-> IF <<a, message.from>> \in DOMAIN map
                  THEN [map EXCEPT ![<<a, message.from>>] = handleAnswer(@)]
                  ELSE map]

\* RoomManager.handleSignalingMessage
onMessage(m, map, a, message) ==
    IF message.type = "joined" THEN handleJoined(m, map, a, message)
    ELSE IF message.type = "participant-joined"
    THEN handleParticipantJoined(m, map, a, message)
    ELSE IF message.type = "participant-left"
    THEN handleParticipantLeft(m, map, a, message)
    ELSE IF message.type = "offer" THEN handleOfferMessage(m, map, a, message)
    ELSE IF message.type = "answer" THEN handleAnswerMessage(m, map, a, message)
    ELSE [manager |-> m, sessions |-> map]

\* the participant a frame from the gateway is about
PeerOf(message) ==
    IF message.type = "participant-joined" THEN message.participant.id
    ELSE IF message.type = "participant-left" THEN message.id
    ELSE IF message.type \in {"offer", "answer"} THEN message.from
    ELSE Server

\* the track event of a remote description that the connection applies
ontrack(s) ==
    /\ Head(s.chain).op = "setRemoteDescription"
    /\ Head(s.chain).type = "offer" \/ s.signalingState = "have-local-offer"

\* RoomManager.leaveRoom
leaveRoom(m, map, a) ==
    IF m.room = None /\ ~m.localStream /\ ~Truthy(m.currentRoomId)
    THEN [manager |-> m, sessions |-> map, out |-> <<>>]
    ELSE [manager |-> [m EXCEPT !.room = None, !.currentRoomId = None,
                                !.localStream = FALSE, !.remoteStreams = {},
                                !.ws = "none"],
          sessions |-> closeAllConnections(map, a),
          out |-> IF m.room = None \/ m.ws # "open" THEN <<>>
                  ELSE <<[type |-> "leave", from |-> Get(m.room).localParticipantId]>>]

\* RoomManager.joinRoom up to its delay, and the gateway's connection handler
RoomManagerJoinRoom ==
    \E roomId \in world.tokens :
        LET a == nextId + 1
        IN  /\ WSConnection
            /\ browsers' = browsers \cup {a}
            /\ managers' = [b \in browsers \cup {a} |->
                               IF b = a
                               THEN [NewManager EXCEPT !.currentRoomId = Some(roomId),
                                                       !.localStream = TRUE,
                                                       !.ws = "open",
                                                       !.awaiting = TRUE]
                               ELSE managers[b]]
            /\ wire' = [k \in DOMAIN wire \cup {<<Server, a>>} |->
                           IF k = <<Server, a>> THEN <<>> ELSE wire[k]]
            /\ event' = Event("joinRoom", a, Server)
            /\ UNCHANGED <<sessions, transport>>

\* RoomManager.joinRoom after its delay: signalingService.joinRoom, which
\* sends nothing when the socket is not open
SignalingJoinRoom(a) ==
    /\ a \in browsers
    /\ managers[a].awaiting
    /\ managers' = [managers EXCEPT ![a].awaiting = FALSE]
    /\ event' = Event("join", a, Server)
    /\ IF managers[a].ws = "open"
       THEN /\ WSFrame(a, [type |-> "join", roomId |-> Get(managers[a].currentRoomId),
                        displayName |-> None])
            /\ wire' = Received(wire, Listening(managers), last'.sent)
       ELSE UNCHANGED <<serverVars, wire>>
    /\ UNCHANGED <<browsers, sessions, transport>>

\* ws.onmessage of client a with the oldest frame the gateway sent it
MeshReceive(a) ==
    /\ a \in browsers
    /\ wire[<<Server, a>>] # <<>>
    /\ LET message == Head(wire[<<Server, a>>])
           done == onMessage(managers[a], sessions, a, message)
       IN  /\ managers' = [managers EXCEPT ![a] = done.manager]
           /\ sessions' = done.sessions
           /\ event' = Event(message.type, a, PeerOf(message))
    /\ wire' = [wire EXCEPT ![<<Server, a>>] = Tail(@)]
    /\ UNCHANGED <<serverVars, browsers, transport>>

\* the head of the operations chain of a session of client a runs, and the
\* RoomManager code that awaits it sends what it returns
MeshRunOperation(a) ==
    \E p \in 1..MeshClients :
        /\ <<a, p>> \in DOMAIN sessions
        /\ sessions[<<a, p>>].chain # <<>>
        /\ LET s == sessions[<<a, p>>]
               done == runOperation(s, a, p)
           IN  /\ sessions' = [sessions EXCEPT ![<<a, p>>] = done.session]
               /\ managers' = IF ontrack(s)
                              THEN [managers EXCEPT ![a].remoteStreams = @ \cup {p}]
                              ELSE managers
               /\ event' = [Event(Head(s.chain).op, a, p) EXCEPT !.returned =
                               IF done.out = <<>> THEN "none" ELSE done.out[1].type]
               /\ IF done.out # <<>> /\ managers[a].ws = "open"
                  THEN /\ WSFrame(a, done.out[1])
                       /\ wire' = Received(wire, Listening(managers), last'.sent)
                  ELSE UNCHANGED <<serverVars, wire>>
        /\ UNCHANGED <<browsers, transport>>

InitMesh ==
    /\ ServerInit(MeshWorld)
    /\ browsers = {}
    /\ sessions = <<>>
    /\ wire = <<>>
    /\ managers = <<>>
    /\ event = NoEvent
    /\ transport = <<>>

NextMesh ==
    \/ RoomManagerJoinRoom
    \/ \E a \in 1..MeshClients : SignalingJoinRoom(a)
    \/ \E a \in 1..MeshClients : MeshReceive(a)
    \/ \E a \in 1..MeshClients : MeshRunOperation(a)

SpecMesh == InitMesh /\ [][NextMesh]_vars

\* the steps that the clients' event loops and the gateway take by
\* themselves: the handlers of delivered frames, the continuations of
\* joinRoom and the operations of the connections
MeshStep ==
    \E a \in 1..MeshClients :
        SignalingJoinRoom(a) \/ MeshReceive(a) \/ MeshRunOperation(a)

\* a frame is delivered and a handler or an operation runs while there is
\* one to run; a client joins when its user decides to
FairMesh == WF_vars(MeshStep)

SpecMeshFair == SpecMesh /\ FairMesh

\* RoomManager.leaveRoom of client a: the leave frame reaches the gateway
\* when the room was joined, and the closed socket hands over no more frames
RoomManagerLeaveRoom(a) ==
    /\ a \in browsers
    /\ LET done == leaveRoom(managers[a], sessions, a)
       IN  /\ managers' = [managers EXCEPT ![a] = done.manager]
           /\ sessions' = done.sessions
           /\ event' = Event("leaveRoom", a, Server)
           /\ IF done.out # <<>>
              THEN /\ WSFrame(a, done.out[1])
                   /\ wire' = [Received(wire, Listening(managers'), last'.sent)
                                  EXCEPT ![<<Server, a>>] = <<>>]
              ELSE /\ wire' = [wire EXCEPT ![<<Server, a>>] = <<>>]
                   /\ UNCHANGED serverVars
    /\ UNCHANGED <<browsers, transport>>

\* the gateway's close event for a socket that its client closed
SocketCloses(a) ==
    /\ a \in browsers
    /\ a \in DOMAIN clients
    /\ managers[a].ws = "none"
    /\ WSClose(a, clients[a])
    /\ wire' = Received(wire, Listening(managers), last'.sent)
    /\ UNCHANGED <<browsers, sessions, managers, event, transport>>

NextTeardown ==
    \/ RoomManagerJoinRoom
    \/ \E a \in 1..MeshClients : SignalingJoinRoom(a)
    \/ \E a \in 1..MeshClients : MeshReceive(a)
    \/ \E a \in 1..MeshClients : MeshRunOperation(a)
    \/ \E a \in 1..MeshClients : RoomManagerLeaveRoom(a)
    \/ \E a \in 1..MeshClients : SocketCloses(a)
    \/ ConnectionStateChange

TeardownClients == 2

\* one room and the clients that join and leave it
TeardownWorld == [MeshWorld EXCEPT !.conns = TeardownClients]

InitTeardown ==
    /\ ServerInit(TeardownWorld)
    /\ browsers = {}
    /\ sessions = <<>>
    /\ wire = <<>>
    /\ managers = <<>>
    /\ event = NoEvent
    /\ transport = <<>>

SpecTeardown == InitTeardown /\ [][NextTeardown]_vars

(***************************************************************************)
(* The frames the gateway has sent to each connection.  Here               *)
(* wire[<<Server, c>>] is every frame written to the socket of connection  *)
(* c so far other than the error replies, in the order of the sends, which *)
(* is the order in which c receives them.  The connections send any        *)
(* frame, under any id.                                                    *)
(***************************************************************************)
OrderConns == 2

MaxFrames == 4

OrderWorld ==
    [conns |-> OrderConns, tokens |-> {R1, R2}, names |-> {None},
     rawNames |-> {Spaces}, kinds |-> {"offer", "answer"}, forge |-> TRUE,
     lockstep |-> FALSE]

\* the frames of one handler, appended to the records of their recipients
RECURSIVE Written(_, _)
Written(w, sent) ==
    IF sent = <<>> THEN w
    ELSE LET m == Head(sent)
             got == IF m.delivered /\ m.message.type # "error"
                    THEN [k \in DOMAIN w \cup {<<Server, m.to>>} |->
                             IF k = <<Server, m.to>>
                             THEN (IF k \in DOMAIN w THEN w[k] ELSE <<>>) \o <<m.message>>
                             ELSE w[k]]
                    ELSE w
         IN  Written(got, Tail(sent))

\* no connection has been sent more than the sockets are followed for
Room4Frames == \A k \in DOMAIN wire : Len(wire[k]) < MaxFrames

Recorded == UNCHANGED <<browsers, sessions, managers, event, transport>>

OrderConnection ==
    /\ WSConnection
    /\ wire' = wire
    /\ Recorded

OrderJoin ==
    \E c \in DOMAIN clients, roomId \in world.tokens :
        /\ Room4Frames
        /\ WSFrame(c, [type |-> "join", roomId |-> roomId, displayName |-> None])
        /\ wire' = Written(wire, last'.sent)
        /\ Recorded

OrderSignal ==
    \E c \in DOMAIN clients, type \in world.kinds, to \in 1..world.conns :
      \E from \in FromIds(c) :
        /\ Room4Frames
        /\ WSFrame(c, [type |-> type, from |-> from, to |-> to, payload |-> "payload"])
        /\ wire' = Written(wire, last'.sent)
        /\ Recorded

OrderClose ==
    \E c \in DOMAIN clients :
        /\ Room4Frames
        /\ WSClose(c, clients[c])
        /\ wire' = Written(wire, last'.sent)
        /\ Recorded

InitOrder == ServerInit(OrderWorld) /\ NoClients

NextOrder ==
    \/ OrderConnection
    \/ OrderJoin
    \/ OrderSignal
    \/ OrderClose

SpecOrder == InitOrder /\ [][NextOrder]_vars

(***************************************************************************)
(* One page that joins a room and leaves it.  managers[LocalId] is its     *)
(* RoomManager, with the await that joinRoom has reached (at), the roomId  *)
(* argument of joinRoom, and whether leaveRoom was called before joinRoom  *)
(* ended ("during") or only after it ("after").  transport[LocalId] is its *)
(* WebSocketAdapter, with the id the gateway gave the connection of the    *)
(* socket it holds (conn, 0 before that socket has opened).                *)
(* wire[<<Server, c>>] holds the frames the gateway has sent on connection *)
(* c that the page has yet to handle.                                      *)
(***************************************************************************)
\* how many connections the gateway accepts
JoinSockets == 3

JoinerWorld == [MeshWorld EXCEPT !.conns = JoinSockets, !.lockstep = FALSE]

\* the awaits of RoomManager.joinRoom
Awaits == {"getUserMedia", "connect", "delay"}

NewJoiner == NewManager @@ [at |-> "idle", roomId |-> None, left |-> "no"]

NewSignaling == NewTransport @@ [conn |-> 0]

\* the connection of the socket the adapter holds, when that socket is open
HeldOpen(t) == IF t.ws = "open" THEN {t.conn} ELSE {}

\* RoomManager.joinRoom up to its first await; currentRoomId is null before
\* the first call, so there is no room to leave first
JoinerJoinRoom ==
    \E roomId \in world.tokens :
        /\ managers[LocalId].at = "idle"
        /\ managers' = [managers EXCEPT ![LocalId].currentRoomId = Some(roomId),
                                        ![LocalId].roomId = Some(roomId),
                                        ![LocalId].at = "getUserMedia"]
        /\ event' = Event("joinRoom", LocalId, Server)
        /\ UNCHANGED <<serverVars, browsers, sessions, wire, transport>>

\* getUserMedia resolves: joinRoom keeps the stream and calls connect
GetUserMediaResolves ==
    /\ managers[LocalId].at = "getUserMedia"
    /\ managers' = [managers EXCEPT ![LocalId].localStream = TRUE,
                                    ![LocalId].at = "connect"]
    /\ transport' = [transport EXCEPT ![LocalId] =
           [connect(@) EXCEPT !.conn = 0, !.connects = @ + 1]]
    /\ event' = Event("getUserMedia", LocalId, Server)
    /\ UNCHANGED <<serverVars, browsers, sessions, wire>>

\* getUserMedia rejects: the catch block of joinRoom
GetUserMediaRejects ==
    /\ managers[LocalId].at = "getUserMedia"
    /\ managers' = [managers EXCEPT ![LocalId].currentRoomId = None,
                                    ![LocalId].at = "failed"]
    /\ event' = Event("denied", LocalId, Server)
    /\ UNCHANGED <<serverVars, browsers, sessions, wire, transport>>

\* a socket opens: the gateway's connection handler and the socket's
\* onopen, which resolves the promise of the connect that created it.
\* While joinRoom awaits connect, the only socket is the one it created.
JoinerSocketOpen ==
    \E held \in BOOLEAN :
        LET m == managers[LocalId]
            t == transport[LocalId]
            c == nextId + 1
        IN  /\ IF held THEN t.ws = "connecting" ELSE t.others["connecting"] > 0
            /\ WSConnection
            /\ transport' = [transport EXCEPT ![LocalId] =
                   onopen(IF held THEN [t EXCEPT !.ws = "open", !.conn = c]
                          ELSE [t EXCEPT !.others["connecting"] = @ - 1,
                                         !.others["open"] = @ + 1])]
            /\ managers' = [managers EXCEPT ![LocalId] =
                   IF held
                   THEN [m EXCEPT !.ws = "open",
                                  !.at = IF @ = "connect" THEN "delay" ELSE @]
                   ELSE m]
            /\ wire' = [k \in DOMAIN wire \cup {<<Server, c>>} |->
                           IF k = <<Server, c>> THEN <<>> ELSE wire[k]]
            /\ event' = Event("open", LocalId, Server)
            /\ UNCHANGED <<browsers, sessions>>

\* a socket closes: onclose, after onerror when the socket never opened,
\* which rejects the promise of the connect that created it
JoinerSocketClose ==
    \E held \in BOOLEAN, state \in Live :
        LET m == managers[LocalId]
            t == transport[LocalId]
            failed == IF m.at = "connect"
                      THEN [m EXCEPT !.currentRoomId = None, !.at = "failed"]
                      ELSE m
        IN  /\ IF held THEN t.ws = state ELSE t.others[state] > 0
            /\ transport' = [transport EXCEPT ![LocalId] =
                   attemptReconnect(IF held THEN [t EXCEPT !.ws = "closed", !.conn = 0]
                                    ELSE [t EXCEPT !.others[state] = @ - 1])]
            /\ managers' = [managers EXCEPT ![LocalId] =
                   IF held THEN [failed EXCEPT !.ws = "none"] ELSE failed]
            /\ event' = Event("close", LocalId, Server)
            /\ UNCHANGED <<serverVars, browsers, sessions, wire>>

\* a reconnect timeout fires and calls connect.  The timeouts are of 2000
\* ms and more and are set after the 100 ms delay of joinRoom has begun, so
\* none fires during that delay.
JoinerTimerFires ==
    \E held \in BOOLEAN :
        LET t == transport[LocalId]
        IN  /\ managers[LocalId].at # "delay"
            /\ IF held THEN t.timer ELSE t.timers > 0
            /\ transport' = [transport EXCEPT ![LocalId] =
                   [connect(IF held THEN [t EXCEPT !.timer = FALSE]
                            ELSE [t EXCEPT !.timers = @ - 1]) EXCEPT !.conn = 0]]
            /\ managers' = [managers EXCEPT ![LocalId].ws = "none"]
            /\ event' = Event("timeout", LocalId, Server)
            /\ UNCHANGED <<serverVars, browsers, sessions, wire>>

\* the delay of joinRoom ends: signalingService.joinRoom(roomId), which
\* sends nothing when the adapter holds no open socket
JoinerDelayEnds ==
    LET m == managers[LocalId]
        t == transport[LocalId]
    IN  /\ m.at = "delay"
        /\ managers' = [managers EXCEPT ![LocalId].at = "done"]
        /\ event' = Event("join", LocalId, Server)
        /\ IF t.ws = "open"
           THEN /\ WSFrame(t.conn, [type |-> "join", roomId |-> Get(m.roomId),
                                    displayName |-> None])
                /\ wire' = Received(wire, HeldOpen(t), last'.sent)
           ELSE UNCHANGED <<serverVars, wire>>
        /\ UNCHANGED <<browsers, sessions, transport>>

\* ws.onmessage of the socket the adapter holds
JoinerReceive ==
    LET m == managers[LocalId]
        t == transport[LocalId]
    IN  /\ t.ws = "open"
        /\ wire[<<Server, t.conn>>] # <<>>
        /\ LET message == Head(wire[<<Server, t.conn>>])
               done == onMessage(m, sessions, LocalId, message)
           IN  /\ managers' = [managers EXCEPT ![LocalId] = done.manager]
               /\ sessions' = done.sessions
               /\ event' = Event(message.type, LocalId, PeerOf(message))
        /\ wire' = [wire EXCEPT ![<<Server, t.conn>>] = Tail(@)]
        /\ UNCHANGED <<serverVars, browsers, transport>>

\* RoomManager.leaveRoom, which calls signalingService.disconnect unless it
\* returns at its first check
JoinerLeaveRoom ==
    LET m == managers[LocalId]
        t == transport[LocalId]
        done == leaveRoom(m, sessions, LocalId)
        returned == done.manager = m
    IN  /\ m.at # "idle"
        /\ managers' = [managers EXCEPT ![LocalId] =
               [done.manager EXCEPT !.left = IF m.at \in Awaits THEN "during"
                                              ELSE "after"]]
        /\ sessions' = done.sessions
        /\ transport' = [transport EXCEPT ![LocalId] =
               IF returned THEN t ELSE [disconnect(t) EXCEPT !.conn = 0]]
        /\ event' = Event("leaveRoom", LocalId, Server)
        /\ IF done.out # <<>>
           THEN /\ WSFrame(t.conn, done.out[1])
                /\ wire' = Received(wire, {}, last'.sent)
           ELSE UNCHANGED <<serverVars, wire>>
        /\ UNCHANGED browsers

\* the gateway's close event for a connection whose socket the page has
\* closed, lost or let go of
GatewayClose ==
    \E c \in DOMAIN clients \ HeldOpen(transport[LocalId]) :
        /\ WSClose(c, clients[c])
        /\ wire' = Received(wire, HeldOpen(transport[LocalId]), last'.sent)
        /\ UNCHANGED <<browsers, sessions, managers, event, transport>>

InitJoiner ==
    /\ ServerInit(JoinerWorld)
    /\ browsers = {LocalId}
    /\ sessions = <<>>
    /\ wire = <<>>
    /\ managers = [a \in browsers |-> NewJoiner]
    /\ event = NoEvent
    /\ transport = [a \in browsers |-> NewSignaling]

NextJoiner ==
    \/ JoinerJoinRoom
    \/ GetUserMediaResolves
    \/ GetUserMediaRejects
    \/ JoinerSocketOpen
    \/ JoinerSocketClose
    \/ JoinerTimerFires
    \/ JoinerDelayEnds
    \/ JoinerReceive
    \/ JoinerLeaveRoom
    \/ GatewayClose

SpecJoiner == InitJoiner /\ [][NextJoiner]_vars

(***************************************************************************)
(* Reading the last handled event                                          *)
(***************************************************************************)
Ids(members) == [i \in 1..Len(members) |-> members[i].id]

\* the members of room r before the last event, <<>> when it did not exist
MembersBefore(r) == IF r \in DOMAIN last.before THEN last.before[r] ELSE <<>>

MembersNow(r) == IF r \in DOMAIN rooms THEN rooms[r] ELSE <<>>

JoinDone == last.op = "join"

JoinRoomId == last.message.roomId

\* a close event for which the controller ran the leave use case
LeaveDone == last.op = "close" /\ Truthy(last.message)

LeaveRoomId == Get(last.message)

\* a signaling frame for which the controller ran the relay use case
RelayDone == last.op \in SignalTypes /\ Truthy(clients[last.client].roomId)

RelayRoomId == Get(clients[last.client].roomId)

SentTo(c) == SelectSeq(last.sent, LAMBDA m : m.to = c)

SentOfType(type) == SelectSeq(last.sent, LAMBDA m : m.message.type = type)

(***************************************************************************)
(* C1: in every reachable state every room of the store has at most        *)
(* MAX_PARTICIPANTS (5) members.                                           *)
(***************************************************************************)
C1_Capacity == \A r \in DOMAIN rooms : Len(rooms[r]) <= MAX_PARTICIPANTS

\* a sixth connection has just been refused by a room that holds five
C1_Witness ==
    /\ JoinDone
    /\ ~last.result.success
    /\ last.client \notin MemberIds(MembersNow(JoinRoomId))
    /\ Len(MembersNow(JoinRoomId)) = MAX_PARTICIPANTS

(***************************************************************************)
(* C2: a join attempt on a room that already has 5 members fails with the  *)
(* RoomFull error, and the room store (every room's member ids and display *)
(* names) is exactly as before the attempt.                                *)
(***************************************************************************)
C2_FullRoomJoin ==
    (JoinDone /\ Len(MembersBefore(JoinRoomId)) = MAX_PARTICIPANTS)
        => /\ ~last.result.success
           /\ last.result.error = ErrRoomFull
           /\ rooms = last.before

C2_Witness ==
    /\ JoinDone
    /\ Len(MembersBefore(JoinRoomId)) = MAX_PARTICIPANTS
    /\ last.client \notin MemberIds(MembersBefore(JoinRoomId))
    /\ last.result.error = ErrRoomFull

(***************************************************************************)
(* C3 as claimed: a join with an id that is already a member of the room   *)
(* fails with DuplicateParticipant whatever the room's size, membership    *)
(* unchanged.                                                              *)
(***************************************************************************)
C3_Original ==
    (JoinDone /\ last.client \in MemberIds(MembersBefore(JoinRoomId)))
        => /\ ~last.result.success
           /\ last.result.error = ErrDuplicate
           /\ rooms = last.before

(***************************************************************************)
(* C3 amended: a join with an id that is already a member of the room      *)
(* fails and leaves the membership unchanged; the error is                 *)
(* DuplicateParticipant when the room has fewer than 5 members and         *)
(* RoomFull when it has 5.                                                 *)
(***************************************************************************)
C3_DuplicateJoin ==
    (JoinDone /\ last.client \in MemberIds(MembersBefore(JoinRoomId)))
        => /\ ~last.result.success
           /\ rooms = last.before
           /\ last.result.error =
                  IF Len(MembersBefore(JoinRoomId)) < MAX_PARTICIPANTS
                  THEN ErrDuplicate ELSE ErrRoomFull

C3_Witness ==
    /\ JoinDone
    /\ last.client \in MemberIds(MembersBefore(JoinRoomId))
    /\ Len(MembersBefore(JoinRoomId)) < MAX_PARTICIPANTS
    /\ last.result.error = ErrDuplicate

(***************************************************************************)
(* C4: between handled events no room with zero members is in the store.   *)
(***************************************************************************)
C4_NoEmptyRoom == \A r \in DOMAIN rooms : Len(rooms[r]) > 0

\* the last member's connection has just closed and its room is gone
C4_Witness ==
    /\ LeaveDone
    /\ Len(MembersBefore(LeaveRoomId)) = 1
    /\ last.result.roomDeleted
    /\ LeaveRoomId \notin DOMAIN rooms

(***************************************************************************)
(* C5 as claimed: each participant id is a member of at most one room.     *)
(***************************************************************************)
RoomsOf(c) == {r \in DOMAIN rooms : hasParticipant(rooms[r], c)}

C5_OneRoomPerParticipant == \A c \in 1..world.conns : Cardinality(RoomsOf(c)) <= 1

(***************************************************************************)
(* C6: a leave that removes the last member deletes the room (roomDeleted, *)
(* findRoom then absent); a leave that leaves at least one member keeps    *)
(* the room (roomDeleted false); a leave naming a room that does not exist *)
(* fails with RoomNotFound and changes nothing.                            *)
(***************************************************************************)
OthersBefore(r, c) == {p \in Range(MembersBefore(r)) : p.id # c}

C6_LeaveOutcome ==
    LeaveDone =>
        IF LeaveRoomId \notin DOMAIN last.before
        THEN /\ ~last.result.success
             /\ last.result.error = ErrRoomNotFound
             /\ rooms = last.before
        ELSE IF OthersBefore(LeaveRoomId, last.client) = {}
        THEN /\ last.result.success
             /\ last.result.roomDeleted
             /\ findRoom(rooms, LeaveRoomId) = None
        ELSE /\ last.result.success
             /\ ~last.result.roomDeleted
             /\ LeaveRoomId \in DOMAIN rooms
             /\ Range(rooms[LeaveRoomId]) = OthersBefore(LeaveRoomId, last.client)

\* a member has left a room that another member keeps alive
C6_Witness ==
    /\ LeaveDone
    /\ last.client \in MemberIds(MembersBefore(LeaveRoomId))
    /\ ~last.result.roomDeleted
    /\ Len(MembersNow(LeaveRoomId)) >= 1

\* the other two cases of C6
C6_DeletedReached ==
    LeaveDone /\ last.result.roomDeleted /\ findRoom(rooms, LeaveRoomId) = None

C6_NotFoundReached == LeaveDone /\ last.result.error = ErrRoomNotFound

(***************************************************************************)
(* C7: a leave for a participant id that is not a member of an existing    *)
(* room succeeds, leaves the membership unchanged and returns the full     *)
(* current membership as remainingParticipants; repeating a leave gives    *)
(* the same membership as doing it once.                                   *)
(***************************************************************************)
C7_LeaveIdempotent ==
    LeaveDone =>
        /\ (/\ LeaveRoomId \in DOMAIN last.before
            /\ last.client \notin MemberIds(MembersBefore(LeaveRoomId)))
              => /\ last.result.success
                 /\ rooms = last.before
                 /\ last.result.remaining = MembersBefore(LeaveRoomId)
        /\ LeaveRoomUseCase(rooms, LeaveRoomId, last.client).store = rooms

C7_Witness ==
    /\ LeaveDone
    /\ LeaveRoomId \in DOMAIN last.before
    /\ last.client \notin MemberIds(MembersBefore(LeaveRoomId))
    /\ last.result.success
    /\ Len(last.result.remaining) = MAX_PARTICIPANTS

(***************************************************************************)
(* C8: the relay operation succeeds if and only if the named room exists   *)
(* and both the message's from and to ids are members of it; otherwise it  *)
(* reports RoomNotFound, else SenderNotInRoom when from is missing, else   *)
(* RecipientNotInRoom when only to is missing.  On success it returns to   *)
(* as recipient and the message unchanged; it never changes room state.    *)
(***************************************************************************)
C8_Relay ==
    RelayDone =>
        LET m == last.message
            exists == RelayRoomId \in DOMAIN last.before
            ids == MemberIds(MembersBefore(RelayRoomId))
            res == last.result
        IN  /\ rooms = last.before
            /\ res.success <=> (exists /\ m.from \in ids /\ m.to \in ids)
            /\ ~exists => res.error = ErrRoomNotFound
            /\ (exists /\ m.from \notin ids) => res.error = ErrSenderNotInRoom
            /\ (exists /\ m.from \in ids /\ m.to \notin ids)
                  => res.error = ErrRecipientNotInRoom
            /\ res.success => (res.recipientId = m.to /\ res.message = m)

C8_Witness ==
    /\ RelayDone
    /\ last.result.success
    /\ last.message.from # last.message.to
    /\ last.result.recipientId = last.message.to

\* the failure cases of C8
C8_NotFoundReached == RelayDone /\ last.result.error = ErrRoomNotFound

C8_SenderReached == RelayDone /\ last.result.error = ErrSenderNotInRoom

C8_RecipientReached == RelayDone /\ last.result.error = ErrRecipientNotInRoom

(***************************************************************************)
(* C9: a successful join returns as existingParticipants exactly the       *)
(* room's members immediately before the joiner was inserted, in the order *)
(* in which they joined, never the joiner itself, and the empty list for   *)
(* the first join into an unknown room.  The joiner is appended after      *)
(* them, and no other event reorders the members of a room.                *)
(***************************************************************************)
C9_ExistingSnapshot ==
    IF JoinDone /\ last.result.success
    THEN /\ last.result.existing = MembersBefore(JoinRoomId)
         /\ last.client \notin MemberIds(last.result.existing)
         /\ JoinRoomId \notin DOMAIN last.before => last.result.existing = <<>>
         /\ rooms[JoinRoomId] =
                Append(MembersBefore(JoinRoomId),
                       Participant(last.client, last.message.displayName))
         /\ \A r \in DOMAIN rooms \ {JoinRoomId} :
                r \in DOMAIN last.before /\ rooms[r] = last.before[r]
    ELSE \A r \in DOMAIN rooms :
            /\ r \in DOMAIN last.before
            /\ Ids(rooms[r]) = SelectSeq(Ids(last.before[r]),
                                         LAMBDA i : i \in MemberIds(rooms[r]))

C9_Witness ==
    /\ JoinDone
    /\ last.result.success
    /\ Len(last.result.existing) >= 2
    /\ last.result.existing = MembersBefore(JoinRoomId)

(***************************************************************************)
(* C10: on a successful join the controller sends exactly one joined       *)
(* message to the joining connection (its own id, the pre-join membership, *)
(* the ICE server list) and exactly one participant-joined naming the      *)
(* newcomer to each pre-existing member, and nothing to anyone else; on a  *)
(* failed join it sends only one error to the joining connection.          *)
(***************************************************************************)
C10_JoinMessages ==
    JoinDone =>
        LET c == last.client
            pre == MembersBefore(JoinRoomId)
        IN  IF last.result.success
            THEN /\ Len(last.sent) = 1 + Len(pre)
                 /\ SentTo(c) = SentOfType("joined")
                 /\ Len(SentTo(c)) = 1
                 /\ SentTo(c)[1].message =
                        [type |-> "joined", youId |-> c,
                         participants |->
                             [i \in 1..Len(pre) |->
                                 [id |-> pre[i].id, displayName |-> pre[i].displayName]],
                         iceServers |-> iceServers]
                 /\ \A e \in MemberIds(pre) :
                        /\ Len(SentTo(e)) = 1
                        /\ SentTo(e)[1].message =
                               [type |-> "participant-joined",
                                participant |->
                                    [id |-> c,
                                     displayName |-> last.message.displayName]]
                 /\ \A i \in 1..Len(last.sent) : last.sent[i].to \in {c} \cup MemberIds(pre)
            ELSE /\ Len(last.sent) = 1
                 /\ last.sent[1].to = c
                 /\ last.sent[1].message.type = "error"

\* a named newcomer has joined a room that held a named member
C10_Witness ==
    /\ JoinDone
    /\ last.result.success
    /\ Len(MembersBefore(JoinRoomId)) >= 1
    /\ IsSome(MembersBefore(JoinRoomId)[1].displayName)
    /\ IsSome(last.message.displayName)
    /\ Len(SentOfType("participant-joined")) >= 1

\* the failed join of C10
C10_ErrorReached == JoinDone /\ ~last.result.success /\ Len(last.sent) = 1

(***************************************************************************)
(* C11: an offer, answer or ice-candidate from a connection that is not    *)
(* associated with any room is answered with a NotInRoom error and         *)
(* forwarded to nobody; when the sender is associated with a room and the  *)
(* relay check passes, the untouched message goes to exactly the resolved  *)
(* recipient and to no other connection; when the check fails only the     *)
(* sender receives an error.                                               *)
(***************************************************************************)
SignalDone == last.op \in SignalTypes

C11_RelayDispatch ==
    SignalDone =>
        LET c == last.client
        IN  /\ Len(last.sent) = 1
            /\ IF ~Truthy(clients[c].roomId)
               THEN /\ last.sent[1].to = c
                    /\ last.sent[1].message = ErrorMessage(ErrNotInRoom)
               ELSE IF last.result.success
               THEN /\ last.sent[1].to = last.message.to
                    /\ last.sent[1].to = last.result.recipientId
                    /\ last.sent[1].message = last.message
               ELSE /\ last.sent[1].to = c
                    /\ last.sent[1].message = ErrorMessage(last.result.error)
                    /\ last.result.error \in {ErrRoomNotFound, ErrSenderNotInRoom,
                                              ErrRecipientNotInRoom}

\* a member's message has been forwarded to another member
C11_Witness ==
    /\ SignalDone
    /\ last.result.success
    /\ last.message.to # last.client
    /\ last.sent = << [to |-> last.message.to, message |-> last.message,
                       delivered |-> TRUE] >>

\* the other two cases of C11
C11_NotInRoomReached ==
    SignalDone /\ ~Truthy(clients[last.client].roomId) /\ Len(last.sent) = 1

C11_RejectedReached == RelayDone /\ ~last.result.success /\ Len(last.sent) = 1

(***************************************************************************)
(* C12: when a connection's transport closes or is terminated, the         *)
(* controller removes it from its last-known room and sends                *)
(* participant-left with its id to every remaining member of that room and *)
(* to no one else; when the room becomes empty and is deleted, no message  *)
(* is sent.                                                                *)
(***************************************************************************)
CloseDone == last.op = "close"

C12_DisconnectBroadcast ==
    CloseDone =>
        LET c == last.client
        IN  IF LeaveDone /\ LeaveRoomId \in DOMAIN last.before
            THEN LET remaining == SelectSeq(MembersBefore(LeaveRoomId),
                                            LAMBDA p : p.id # c)
                 IN  /\ ~hasParticipant(MembersNow(LeaveRoomId), c)
                     /\ MembersNow(LeaveRoomId) = remaining
                     /\ Len(last.sent) = Len(remaining)
                     /\ \A i \in 1..Len(remaining) :
                            /\ last.sent[i].to = remaining[i].id
                            /\ last.sent[i].message = ParticipantLeftMessage(c)
                     /\ remaining = <<>> =>
                            (LeaveRoomId \notin DOMAIN rooms /\ last.sent = <<>>)
            ELSE last.sent = <<>> /\ rooms = last.before

\* the heartbeat terminated a member, and its close event told the member
\* that remains, while a third connection got nothing
C12_Witness ==
    /\ CloseDone
    /\ LeaveDone
    /\ last.terminated
    /\ last.client \in MemberIds(MembersBefore(LeaveRoomId))
    /\ Len(last.sent) = 1
    /\ last.sent[1].delivered
    /\ Cardinality(DOMAIN clients) = 2

\* the last member's close deletes the room and sends nothing
C12_EmptiedReached ==
    /\ CloseDone
    /\ LeaveDone
    /\ last.result.roomDeleted
    /\ last.sent = <<>>

(***************************************************************************)
(* C13 as claimed: when a join, relay or display-name update fails         *)
(* validation, the only effect is one error message to the originating     *)
(* connection: the room store and the gateway's recorded room id of every  *)
(* connection, the sender's included, are as before, and no other          *)
(* connection receives any message.                                        *)
(***************************************************************************)
ValidatedTypes == {"join", "update-display-name"} \cup SignalTypes

C13_FailureFrame ==
    [][(last'.op \in ValidatedTypes /\ ~last'.result.success)
          => /\ rooms' = rooms
             /\ clients' = clients
             /\ Len(last'.sent) = 1
             /\ last'.sent[1].to = last'.client
             /\ last'.sent[1].message.type = "error"]_vars

(***************************************************************************)
(* C14: a frame that is not valid JSON, or whose type is not one of join,  *)
(* offer, answer, ice-candidate, leave, update-display-name, gets an error *)
(* reply to its sender only; the connection stays open and registered, and *)
(* no room or gateway state changes.                                       *)
(***************************************************************************)
C14_BadFrame ==
    [][(last'.op = "invalid" /\ clients[last'.client].readyState = "OPEN")
          => /\ rooms' = rooms
             /\ clients' = clients
             /\ terminated' = terminated
             /\ running' = running
             /\ Len(last'.sent) = 1
             /\ last'.sent[1].to = last'.client
             /\ last'.sent[1].delivered
             /\ last'.sent[1].message.type = "error"
             /\ last'.sent[1].message.message \in {ErrJsonSyntax, ErrInvalidFormat}]_vars

\* a member of a room sent a frame that does not parse, and was told so
C14_Witness ==
    /\ last.op = "invalid"
    /\ last.result.error = ErrJsonSyntax
    /\ last.client \in DOMAIN clients
    /\ clients[last.client].readyState = "OPEN"
    /\ RoomsOf(last.client) # {}
    /\ Len(last.sent) = 1
    /\ last.sent[1].to = last.client

\* the other rejected frame of C14
C14_UnknownTypeReached ==
    /\ last.op = "invalid"
    /\ last.result.error = ErrInvalidFormat
    /\ Len(last.sent) = 1

(***************************************************************************)
(* C15: a display-name update trims the submitted name; it is rejected     *)
(* with EmptyName when the trimmed name is empty, with NameTooLong when    *)
(* the trimmed name is longer than 50 characters, and accepted when it is  *)
(* 1 to 50 characters for an existing member; on acceptance the stored     *)
(* name is the trimmed value, and re-submitting the stored value leaves it *)
(* unchanged.                                                              *)
(***************************************************************************)
\* an update-display-name frame for which the controller ran the use case
RenameDone == last.op = "update-display-name" /\ Truthy(clients[last.client].roomId)

RenameRoomId == Get(clients[last.client].roomId)

NameOf(members, id) ==
    LET p == CHOOSE q \in Range(members) : q.id = id IN p.displayName

C15_DisplayNameRules ==
    RenameDone =>
        LET who == last.message.from
            trimmed == Trim(last.message.displayName)
            res == last.result
            member == /\ RenameRoomId \in DOMAIN last.before
                      /\ who \in MemberIds(MembersBefore(RenameRoomId))
        IN  /\ Len(trimmed) = 0 => (~res.success /\ res.error = ErrEmptyName)
            /\ Len(trimmed) > MAX_NAME_LENGTH
                  => (~res.success /\ res.error = ErrNameTooLong)
            /\ (Len(trimmed) \in 1..MAX_NAME_LENGTH /\ member) => res.success
            /\ (Len(trimmed) \in 1..MAX_NAME_LENGTH /\ ~member)
                  => /\ ~res.success
                     /\ res.error \in {ErrRoomNotFound, ErrParticipantNotFound}
            /\ ~res.success => rooms = last.before
            /\ res.success
                  => /\ res.displayName = trimmed
                     /\ rooms = [last.before EXCEPT ![RenameRoomId] =
                                     setDisplayName(@, who, trimmed)]
                     /\ NameOf(rooms[RenameRoomId], who) = Some(trimmed)
                     /\ UpdateDisplayNameUseCase(rooms, RenameRoomId, who,
                                                 trimmed).store = rooms

\* a padded name of 50 characters has been accepted and stored trimmed
C15_Witness ==
    /\ RenameDone
    /\ last.result.success
    /\ last.message.displayName = Padded(LongName(MAX_NAME_LENGTH))
    /\ NameOf(rooms[RenameRoomId], last.message.from) = Some(LongName(MAX_NAME_LENGTH))

\* the rejections of C15
C15_EmptyReached == RenameDone /\ last.result.error = ErrEmptyName

C15_TooLongReached == RenameDone /\ last.result.error = ErrNameTooLong

(***************************************************************************)
(* C16 as claimed: in every reachable state, every participant that has a  *)
(* display name has one of at most 50 characters after trimming, whether   *)
(* the name was supplied at join time or by a display-name update.         *)
(***************************************************************************)
C16_NameLength ==
    \A r \in DOMAIN rooms :
        \A p \in Range(rooms[r]) :
            IsSome(p.displayName) => Len(Trim(Get(p.displayName))) <= MAX_NAME_LENGTH

(***************************************************************************)
(* C17 as claimed: on a successful display-name update the controller      *)
(* sends display-name-updated (participant id and trimmed name) to every   *)
(* current member of the room, and the requesting connection always        *)
(* receives it; on failure only the requester receives an error.           *)
(***************************************************************************)
C17_RenameBroadcast ==
    last.op = "update-display-name" =>
        LET c == last.client
        IN  IF last.result.success
            THEN LET members == MembersNow(RenameRoomId)
                     update == DisplayNameUpdatedMessage(
                                   last.message.from, Trim(last.message.displayName))
                 IN  /\ Len(last.sent) = Len(members)
                     /\ \A i \in 1..Len(members) :
                            /\ last.sent[i].to = members[i].id
                            /\ last.sent[i].message = update
                     /\ \E i \in 1..Len(last.sent) :
                            last.sent[i].to = c /\ last.sent[i].delivered
            ELSE /\ Len(last.sent) = 1
                 /\ last.sent[1].to = c
                 /\ last.sent[1].message.type = "error"

(***************************************************************************)
(* C18: at each heartbeat tick, every connection that did not answer the   *)
(* previous tick's ping is terminated and removed from the gateway's       *)
(* registry, and a connection that answered (or connected since the        *)
(* previous tick) is pinged and kept.                                      *)
(* As claimed, every termination of a tick comes before any ping of that   *)
(* tick (C18_Original).  The timer visits the registry once, in the order  *)
(* of the connections, and terminates or pings each entry as it comes to   *)
(* it (C18_Heartbeat).                                                     *)
(***************************************************************************)
TickOutcome ==
    LET trace == last'.result.trace
        order == InsertionOrder(DOMAIN clients)
    IN  /\ Len(trace) = Len(order)
        /\ \A i \in 1..Len(order) :
               LET c == order[i]
               IN  /\ trace[i].id = c
                   /\ IF clients[c].isAlive
                      THEN /\ trace[i].op = "ping"
                           /\ c \in DOMAIN clients'
                           /\ clients'[c] = [clients[c] EXCEPT !.isAlive = FALSE]
                           /\ c \notin DOMAIN terminated'
                      ELSE /\ trace[i].op = "terminate"
                           /\ c \notin DOMAIN clients'
                           /\ c \in DOMAIN terminated'
                           /\ terminated'[c] = clients[c]
        /\ DOMAIN clients' \subseteq DOMAIN clients
        /\ rooms' = rooms
        /\ last'.sent = <<>>

TerminationsFirst ==
    LET trace == last'.result.trace
    IN  \A i, j \in 1..Len(trace) :
            (trace[i].op = "terminate" /\ trace[j].op = "ping") => i < j

C18_Original == [][last'.op = "heartbeat" => (TickOutcome /\ TerminationsFirst)]_vars

C18_Heartbeat == [][last'.op = "heartbeat" => TickOutcome]_vars

\* a tick has pinged one connection and then terminated a later one
C18_Witness ==
    /\ last.op = "heartbeat"
    /\ Len(last.result.trace) >= 2
    /\ last.result.trace[1].op = "ping"
    /\ last.result.trace[2].op = "terminate"
    /\ last.result.trace[2].id \in DOMAIN terminated
    /\ last.result.trace[1].id \in DOMAIN clients

(***************************************************************************)
(* C19 as claimed: for every connection, however it ends, the controller's *)
(* disconnect handling runs exactly once: the remaining members of its     *)
(* room receive exactly one participant-left for it, never zero and never  *)
(* two.  Stated for the members that are still registered connections.     *)
(***************************************************************************)
LeftNotices(e, c) ==
    SelectSeq(last.sent, LAMBDA m : m.to = e /\ m.message = ParticipantLeftMessage(c))

C19_ExactlyOnce ==
    CloseDone =>
        \A r \in DOMAIN last.before :
            last.client \in MemberIds(last.before[r])
                => \A e \in (MemberIds(last.before[r]) \ {last.client})
                                \cap DOMAIN clients :
                       Len(LeftNotices(e, last.client)) = 1

(***************************************************************************)
(* C20: glare resolution.  For two peers with ids A < B that each have an  *)
(* outstanding local offer for the other, in every order in which the two  *)
(* offers arrive, A (polite) applies B's offer, rolling back its own, and  *)
(* returns an answer, while B (impolite) ignores A's offer and keeps its   *)
(* own; exactly one offer/answer pair completes for the pair.              *)
(* A session's glare flag says that an offer reached it while its own      *)
(* offer was outstanding (sent, with no answer received and not rolled     *)
(* back).                                                                  *)
(***************************************************************************)
\* nothing is in flight and no operation is pending
Quiet ==
    /\ \A k \in DOMAIN wire : wire[k] = <<>>
    /\ \A k \in DOMAIN sessions : sessions[k].chain = <<>>

GlarePairs ==
    {k \in DOMAIN sessions :
        /\ k[1] < k[2]
        /\ <<k[2], k[1]>> \in DOMAIN sessions
        /\ sessions[k].glare
        /\ sessions[<<k[2], k[1]>>].glare}

C20_Glare ==
    /\ \A k \in DOMAIN sessions :
           LET s == sessions[k]
           IN  IF k[1] < k[2]
               THEN /\ s.ignored = 0
                    /\ ~s.ignoreOffer
                    /\ (s.glare /\ s.chain = <<>>)
                          => (s.rolledBack /\ s.answersSent = 1 /\ ~s.outstanding)
               ELSE s.glare
                      => /\ s.ignored = 1
                         /\ s.answersSent = 0
                         /\ ~s.rolledBack
                         /\ s.signalingState = "have-local-offer" \/ s.asOfferer = 1
    /\ \A k \in GlarePairs :
           LET A == sessions[k]
               B == sessions[<<k[2], k[1]>>]
           IN  /\ A.asOfferer = 0
               /\ B.asAnswerer = 0
               /\ Quiet => /\ A.asAnswerer = 1
                           /\ B.asOfferer = 1
                           /\ A.signalingState = "stable"
                           /\ B.signalingState = "stable"

\* both offers crossed, and the impolite side's offer was answered
C20_Witness ==
    /\ Quiet
    /\ \E k \in GlarePairs :
           /\ sessions[k].rolledBack
           /\ sessions[k].asAnswerer = 1
           /\ sessions[<<k[2], k[1]>>].ignored = 1
           /\ sessions[<<k[2], k[1]>>].asOfferer = 1

(***************************************************************************)
(* C23: two join requests for the same room that are pending together     *)
(* when the room has exactly one free slot never both succeed.  Each      *)
(* request is handled in one step (check and insertion together), so the  *)
(* one handled first succeeds and the other fails with RoomFull and       *)
(* changes nothing, whichever of the two is handled first.                *)
(***************************************************************************)
\* the requests of c1 and then c2 for room r, handled one after the other
TwoJoins(store, r, c1, c2) ==
    LET first == JoinRoomUseCase(store, r, c1, None)
        second == JoinRoomUseCase(first.store, r, c2, None)
    IN  [first |-> first, second |-> second]

OneSlotLeft(store, r) ==
    /\ r \in DOMAIN store
    /\ Len(store[r]) = MAX_PARTICIPANTS - 1

C23_ConcurrentJoins ==
    (/\ JoinDone
     /\ OneSlotLeft(last.before, JoinRoomId)
     /\ last.client \notin MemberIds(MembersBefore(JoinRoomId)))
        => /\ last.result.success
           /\ Len(MembersNow(JoinRoomId)) = MAX_PARTICIPANTS
           /\ \A c \in (1..world.conns) \ (MemberIds(MembersBefore(JoinRoomId))
                                              \cup {last.client}) :
                 LET after == JoinRoomUseCase(rooms, JoinRoomId, c, None)
                     swapped == TwoJoins(last.before, JoinRoomId, c, last.client)
                 IN  /\ ~after.success
                     /\ after.error = ErrRoomFull
                     /\ after.store = rooms
                     /\ swapped.first.success
                     /\ ~swapped.second.success
                     /\ swapped.second.error = ErrRoomFull
                     /\ swapped.second.store = swapped.first.store
                     /\ Len(swapped.second.store[JoinRoomId]) = MAX_PARTICIPANTS

\* the fifth member has just taken the last slot of its room
C23_Witness ==
    /\ JoinDone
    /\ OneSlotLeft(last.before, JoinRoomId)
    /\ last.client \notin MemberIds(MembersBefore(JoinRoomId))
    /\ last.result.success
    /\ world.conns > MAX_PARTICIPANTS

(***************************************************************************)
(* C24: when a relay passes validation but the recipient's connection is   *)
(* not registered and open at the gateway (terminated by the heartbeat     *)
(* with its close event still pending, or closing), the message is not     *)
(* written to any socket: the one send is dropped, the sender gets no      *)
(* error, and the room store and the gateway's connections stay as they    *)
(* were.                                                                   *)
(***************************************************************************)
\* the connection is registered at the gateway and its socket is open
Reachable(registry, c) == c \in DOMAIN registry /\ registry[c].readyState = "OPEN"

C24_DroppedRelay ==
    [][(/\ last'.op \in SignalTypes
        /\ last'.result.success
        /\ ~Reachable(clients, last'.message.to))
          => /\ rooms' = rooms
             /\ clients' = clients
             /\ terminated' = terminated
             /\ Len(last'.sent) = 1
             /\ last'.sent[1].to = last'.message.to
             /\ ~last'.sent[1].delivered
             /\ \A i \in 1..Len(last'.sent) :
                    last'.sent[i].message.type # "error"]_vars

\* a member relayed to a member whose socket the heartbeat had terminated
C24_Witness ==
    /\ SignalDone
    /\ last.result.success
    /\ last.message.to \in DOMAIN terminated
    /\ last.message.to \in MemberIds(MembersNow(RelayRoomId))
    /\ Len(last.sent) = 1
    /\ ~last.sent[1].delivered

\* the recipient's socket is registered but closing
C24_ClosingReached ==
    /\ SignalDone
    /\ last.result.success
    /\ last.message.to \in DOMAIN clients
    /\ clients[last.message.to].readyState = "CLOSING"
    /\ ~last.sent[1].delivered

ClosedOne ==
    \/ event.op = "closePeerConnection"
    \/ event.op = "connectionstatechange" /\ event.returned \in {"failed", "closed"}

C26_CloseIdempotent ==
    [][/\ ClosedOne' =>
            LET k == <<event'.client, event'.peer>>
            IN  /\ k \notin DOMAIN sessions'
                /\ DOMAIN sessions' = DOMAIN sessions \ {k}
                /\ \A j \in DOMAIN sessions' : sessions'[j] = sessions[j]
                /\ closePeerConnection(sessions', k[1], k[2]) = sessions'
                /\ onconnectionstatechange(sessions', k[1], k[2], "closed") = sessions'
       /\ event'.op = "closeAllConnections" =>
            /\ \A j \in DOMAIN sessions' : j[1] # event'.client
            /\ \A j \in DOMAIN sessions : j[1] # event'.client =>
                   (j \in DOMAIN sessions' /\ sessions'[j] = sessions[j])
            /\ closeAllConnections(sessions', event'.client) = sessions'
            /\ \A p \in AdapterPeers :
                   closePeerConnection(sessions', event'.client, p) = sessions']_vars

\* one session was closed while the client's session for another peer was
\* waiting for an answer
C26_Witness ==
    /\ event.op = "closePeerConnection"
    /\ event.found
    /\ <<event.client, event.peer>> \notin DOMAIN sessions
    /\ \E k \in DOMAIN sessions :
           k[1] = event.client /\ sessions[k].signalingState = "have-local-offer"

\* the other ways of C26: the connection failed, and every session closed
C26_FailedReached ==
    /\ event.op = "connectionstatechange"
    /\ event.returned = "failed"
    /\ event.found
    /\ <<event.client, event.peer>> \notin DOMAIN sessions
    /\ sessions # <<>>

C26_AgainReached == event.op = "closePeerConnection" /\ ~event.found /\ sessions # <<>>

(***************************************************************************)
(* C29: createOffer for a peer that has a session is a no-op returning     *)
(* empty, with the session unchanged, when an offer attempt for that peer  *)
(* is in progress (makingOffer) or the signaling state is not stable;      *)
(* otherwise it marks the session as making an offer and begins one        *)
(* attempt, which ends with the flag cleared.                              *)
(***************************************************************************)
C29_CreateOfferGuard ==
    [][(event'.op = "createOffer" /\ event'.found) =>
          LET k == <<event'.client, event'.peer>>
          IN  IF sessions[k].makingOffer \/ sessions[k].signalingState # "stable"
              THEN /\ sessions' = sessions
                   /\ event'.returned = "empty"
              ELSE /\ sessions'[k].makingOffer
                   /\ OfferAttempts(sessions'[k]) = 1]_vars

(***************************************************************************)
(* C30: a session has at most one offer attempt in progress at any time,   *)
(* counting the attempts of createOffer and of the negotiationneeded       *)
(* handler, and makingOffer is true while an attempt is in progress.       *)
(***************************************************************************)
C30_OneAttempt ==
    \A k \in DOMAIN sessions :
        /\ OfferAttempts(sessions[k]) <= 1
        /\ OfferAttempts(sessions[k]) = 1 => sessions[k].makingOffer

(***************************************************************************)
(* C28: the adapter's attempt counter stays between 0 and 5; it goes up    *)
(* by one exactly when a closed socket schedules a reconnect, which it     *)
(* does only below 5, and it goes down only to 0 and only when a socket    *)
(* opens.  So at most 5 reconnects are scheduled without an open between   *)
(* them, and once the counter is 5 and the last socket has closed nothing  *)
(* is pending: the adapter does nothing more unless its user calls it.     *)
(***************************************************************************)
\* the reconnect timeouts that have not fired and were not cleared
Pending(t) == t.timers + (IF t.timer THEN 1 ELSE 0)

\* no socket of the adapter can still open or close
Dead(t) == t.ws \notin Live /\ \A state \in Live : t.others[state] = 0

Exhausted(t) ==
    t.reconnectAttempts = maxReconnectAttempts /\ Dead(t) /\ Pending(t) = 0

C28_Reconnect ==
    [][\A a \in DOMAIN transport :
          LET t == transport[a]
              u == transport'[a]
          IN  /\ u.reconnectAttempts \in 0..maxReconnectAttempts
              /\ u.reconnectAttempts < t.reconnectAttempts =>
                     (event'.op = "open" /\ u.reconnectAttempts = 0)
              /\ u.reconnectAttempts > t.reconnectAttempts =>
                     /\ event'.op = "close"
                     /\ u.reconnectAttempts = t.reconnectAttempts + 1
                     /\ Pending(u) = Pending(t) + 1
              /\ Pending(u) > Pending(t) =>
                     /\ t.reconnectAttempts < maxReconnectAttempts
                     /\ u.reconnectAttempts = t.reconnectAttempts + 1
              /\ Exhausted(t) => event'.op \in {"connect", "disconnect"}]_vars

\* the socket of the fifth reconnect has closed, and nothing is pending
C28_Witness ==
    /\ event.op = "close"
    /\ \E a \in DOMAIN transport : Exhausted(transport[a])

\* a socket opened after the adapter had let go of it
C28_LateOpenReached ==
    /\ event.op = "open"
    /\ \E a \in DOMAIN transport :
           transport[a].ws # "open" /\ transport[a].reconnectAttempts = 0

\* the offers client a has sent to peer p
OffersSent(a, p) ==
    IF <<a, p>> \in DOMAIN sessions THEN sessions[<<a, p>>].offersSent ELSE 0

\* clients connect one after the other and each joins before the next one
\* connects, so the gateway's ids follow the order of the joins
JoinedBefore(p, a) == p < a

\* C22 (offers): an offer is only ever sent by the later joiner of a pair to
\* the earlier one, and at most one offer is ever sent per pair of members
C22_OneOfferPerPair ==
    \A a \in browsers, p \in browsers :
        /\ OffersSent(a, p) > 0 => JoinedBefore(p, a)
        /\ a # p => OffersSent(a, p) + OffersSent(p, a) <= 1

\* C22 (handlers): the client that handles joined starts one offer to each
\* participant the message lists, and the client that handles
\* participant-joined starts nothing: its sessions are as they were
C22_HandlersOffer ==
    /\ event'.op = "joined" =>
          \A p \in Participants(managers'[event'.client]) \ {event'.client} :
              /\ <<event'.client, p>> \in DOMAIN sessions'
              /\ sessions'[<<event'.client, p>>].makingOffer
              /\ sessions'[<<event'.client, p>>].chain = <<Operation("createOffer", "offer")>>
    /\ event'.op = "participant-joined" =>
          /\ sessions' = sessions
          /\ event'.peer \in Participants(managers'[event'.client])

\* C22: for every pair of room members only the later joiner sends an offer,
\* to each participant listed in its joined message, and the earlier member
\* only answers: a member that receives participant-joined sends no offer to
\* the newcomer, so at most one offer is ever sent per pair
C22_OnlyLaterJoinerOffers == []C22_OneOfferPerPair /\ [][C22_HandlersOffer]_vars

\* an earlier member has handled participant-joined for a newcomer, the
\* newcomer has sent its one offer and the member has answered it
C22_Witness ==
    \E a \in browsers, p \in browsers :
        /\ JoinedBefore(p, a)
        /\ a \in Participants(managers[p])
        /\ OffersSent(a, p) = 1
        /\ <<p, a>> \in DOMAIN sessions
        /\ sessions[<<p, a>>].asAnswerer = 1
        /\ OffersSent(p, a) = 0

\* the connections that the gateway holds as participants of the room
Members == IF roomExists(rooms, R1) THEN MemberIds(rooms[R1]) ELSE {}

\* client a has applied the description of peer p and is back in stable
Applied(a, p) ==
    /\ <<a, p>> \in DOMAIN sessions
    /\ sessions[<<a, p>>].signalingState = "stable"
    /\ sessions[<<a, p>>].chain = <<>>
    /\ p \in managers[a].remoteStreams

\* the later joiner a and the earlier member p have completed one
\* offer/answer exchange
Complete(a, p) ==
    /\ Applied(a, p)
    /\ Applied(p, a)
    /\ sessions[<<a, p>>].asOfferer = 1
    /\ sessions[<<p, a>>].asAnswerer = 1

HoldsLocalOffer(a, p) ==
    /\ <<a, p>> \in DOMAIN sessions
    /\ sessions[<<a, p>>].signalingState = "have-local-offer"

\* C21: when clients join one room and none leaves or disconnects, under
\* fair delivery and fair scheduling of every client's handlers every pair
\* of members eventually completes one offer/answer exchange, both ends
\* back in stable with the other's description applied, and no client keeps
\* an unanswered local offer for ever
C21_FullMesh ==
    <>[](\A a \in 1..MeshClients, p \in 1..MeshClients :
            /\ (p < a /\ {a, p} \subseteq Members) => Complete(a, p)
            /\ ~HoldsLocalOffer(a, p))

\* every pair of a full room of clients has completed its exchange
C21_Witness ==
    /\ Members = 1..MeshClients
    /\ \A a \in 1..MeshClients, p \in 1..MeshClients : p < a => Complete(a, p)

\* a later joiner holds a local offer that the earlier member has yet to answer
C21_OfferPendingReached ==
    \E a \in browsers, p \in browsers : p < a /\ HoldsLocalOffer(a, p)

\* client a holds nothing of peer p but, at most, its entry in the room
NoSession(map, a, p) == <<a, p>> \notin DOMAIN map

\* client a holds no remote stream and no participant entry for peer p
Forgotten(m, p) == p \notin m.remoteStreams /\ p \notin Participants(m)

\* C27: the session a client holds for peer P is torn down on a
\* participant-left for P, on P's connection reaching failed or closed, and
\* on the client leaving the room: after each of these the client holds no
\* session for P, and after participant-left or the leave it holds no remote
\* stream and no participant entry for P either
C27_Teardown ==
    [][LET a == event'.client
           P == event'.peer
       IN  /\ event'.op = "participant-left" =>
                 NoSession(sessions', a, P) /\ Forgotten(managers'[a], P)
           /\ (event'.op = "connectionstatechange"
                 /\ event'.returned \in {"failed", "closed"}) =>
                 NoSession(sessions', a, P)
           /\ event'.op = "leaveRoom" =>
                 \A p \in 1..MeshClients :
                     NoSession(sessions', a, p) /\ Forgotten(managers'[a], p)]_vars

\* a client that held a session and a remote stream for P has handled the
\* participant-left for P
C27_Witness ==
    /\ event.op = "participant-left"
    /\ event.found
    /\ managers[event.client].room # None
    /\ NoSession(sessions, event.client, event.peer)

\* a client has left the room it had joined, and the gateway has its leave
C27_LeftReached ==
    /\ event.op = "leaveRoom"
    /\ managers[event.client].room = None
    /\ last.op = "leave"

\* the connection of a session failed or closed and the session is gone
C27_FailedReached ==
    /\ event.op = "connectionstatechange"
    /\ event.returned \in {"failed", "closed"}
    /\ event.found
    /\ event.peer \in Participants(managers[event.client])

(***************************************************************************)
(* C32: the server acts on a message's from field only when it equals the  *)
(* id of the connection that sent the message: an offer, answer or         *)
(* ice-candidate is relayed, and a display name changed, only under the    *)
(* sender's own id, and nothing is relayed for a connection that is not a  *)
(* member of the room (its join failed).                                   *)
(***************************************************************************)
C32_SenderIdentity ==
    /\ (SignalDone /\ last.result.success) =>
          /\ last.message.from = last.client
          /\ hasParticipant(MembersBefore(RelayRoomId), last.client)
    /\ (last.op = "update-display-name" /\ last.result.success) =>
          last.message.from = last.client

(***************************************************************************)
(* C33: after the gateway has handled the close of a connection, the id of *)
(* that connection is a member of no room, whatever frames the connection  *)
(* sent before (joins for several rooms and failed joins included).        *)
(***************************************************************************)
C33_ClosedIsNowhere == CloseDone => RoomsOf(last.client) = {}

(***************************************************************************)
(* C34: a participant-left{id} is sent to the members of a room only when  *)
(* id was a member of that room immediately before the event: the close of *)
(* a connection whose join to the room failed sends none.                  *)
(***************************************************************************)
C34_LeftOnlyForMembers ==
    \A i \in 1..Len(last.sent) :
        last.sent[i].message.type = "participant-left" =>
            \E r \in DOMAIN last.before :
                /\ hasParticipant(last.before[r], last.sent[i].message.id)
                /\ hasParticipant(last.before[r], last.sent[i].to)

\* the members of room r in store
MembersIn(store, r) == IF r \in DOMAIN store THEN MemberIds(store[r]) ELSE {}

\* C35 (frame): handling a leave frame leaves the room store and the
\* registry as they were and sends nothing; a connection stops being a
\* member of a room only in the step that handles its close
C35_LeaveFrame ==
    /\ last'.op = "leave" =>
          /\ rooms' = rooms
          /\ clients' = clients
          /\ last'.sent = <<>>
    /\ \A r \in DOMAIN rooms, c \in 1..world.conns :
          (c \in MembersIn(rooms, r) /\ c \notin MembersIn(rooms', r)) =>
              last'.op = "close" /\ last'.client = c

\* C35 (notice): participant-left is sent only by the handling of a close
C35_LeftOnClose ==
    \A i \in 1..Len(last.sent) :
        last.sent[i].message.type = "participant-left" => last.op = "close"

\* C35: an explicit leave message changes nothing on the server: the sender
\* stays a member of its room, the room store is unchanged and no message
\* is sent to anyone; membership is removed and participant-left is sent
\* only when the sender's connection closes
C35_LeaveChangesNothing == []C35_LeftOnClose /\ [][C35_LeaveFrame]_vars

\* a member of a room with another member has sent a leave frame
C35_Witness ==
    /\ last.op = "leave"
    /\ \E r \in DOMAIN rooms :
          /\ last.client \in MemberIds(rooms[r])
          /\ Len(rooms[r]) > 1

\* the close of a member was handled and the others were told
C35_ClosedReached ==
    /\ last.op = "close"
    /\ \E i \in 1..Len(last.sent) : last.sent[i].message.type = "participant-left"

\* the frames sent to connection c, in order
Log(c) == IF <<Server, c>> \in DOMAIN wire THEN wire[<<Server, c>>] ELSE <<>>

\* frame m tells its recipient that x is in the room: participant-joined for
\* x, or a joined that lists x
Introduces(m, x) ==
    \/ m.type = "participant-joined" /\ m.participant.id = x
    \/ m.type = "joined" /\ \E n \in DOMAIN m.participants : m.participants[n].id = x

(***************************************************************************)
(* C36: with in-order delivery per connection, a member receives           *)
(* participant-joined{X} (or, having joined after X, the joined that lists *)
(* X) before it receives any offer, answer or ice-candidate from X, and a  *)
(* joiner receives its joined before any signaling message from another    *)
(* member.                                                                 *)
(***************************************************************************)
C36_JoinedFirst ==
    \A c \in 1..OrderConns :
        \A j \in 1..Len(Log(c)) :
            (Log(c)[j].type \in SignalTypes /\ Log(c)[j].from # c) =>
                /\ \E i \in 1..(j - 1) : Log(c)[i].type = "joined"
                /\ \E i \in 1..(j - 1) : Introduces(Log(c)[i], Log(c)[j].from)

\* a member was sent participant-joined for a newcomer and then an offer or
\* answer that the newcomer sent under its own id
C36_Witness ==
    /\ last.op \in SignalTypes
    /\ last.result.success
    /\ last.message.from = last.client
    /\ LET log == Log(last.message.to)
       IN  /\ last.message.to # last.client
           /\ Len(log) >= 3
           /\ log[1].type = "joined"
           /\ log[Len(log)] = last.message
           /\ \E i \in 2..(Len(log) - 1) :
                 /\ log[i].type = "participant-joined"
                 /\ log[i].participant.id = last.client

(***************************************************************************)
(* C37: once the server has sent participant-left{P} to a member, that     *)
(* member never afterwards receives an offer, answer or ice-candidate      *)
(* whose from is P.                                                        *)
(***************************************************************************)
C37_NothingAfterLeft ==
    \A c \in 1..OrderConns :
        \A i \in 1..Len(Log(c)), j \in 1..Len(Log(c)) :
            (i < j /\ Log(c)[i].type = "participant-left") =>
                ~(Log(c)[j].type \in SignalTypes /\ Log(c)[j].from = Log(c)[i].id)

\* the step was RTCAdapter.handleOffer for a session the adapter holds
OfferHandled == event'.op = "handleOffer" /\ <<event'.client, event'.peer>> \in DOMAIN sessions

\* C31 (decision): handleOffer ignores the offer exactly when there is a
\* collision and the local id is not the smaller one; it then returns empty
\* and leaves the signaling state, the pending operations and the session's
\* own outstanding offer as they were, and otherwise it starts applying the
\* remote offer
C31_Decision ==
    OfferHandled =>
        LET k == <<event'.client, event'.peer>>
            s == sessions[k]
            t == sessions'[k]
            ignore == /\ s.makingOffer \/ s.signalingState # "stable"
                      /\ ~(event'.client < event'.peer)
        IN  IF ignore
            THEN /\ event'.returned = "empty"
                 /\ t.signalingState = s.signalingState
                 /\ t.chain = s.chain
                 /\ t.makingOffer = s.makingOffer
                 /\ t.outstanding = s.outstanding
                 /\ t.offersSent = s.offersSent
                 /\ t.answersSent = s.answersSent
            ELSE /\ event'.returned # "empty"
                 /\ t.chain = Append(s.chain, Operation("setRemoteDescription", "offer"))

\* the remote offers a session took stay taken: each is being applied or
\* answered, or its answer was returned
Answered(k) ==
    /\ k \in DOMAIN sessions'
    /\ OffersTaken(sessions'[k]) >= OffersTaken(sessions[k])

C31_AnswerReached ==
    /\ event.op = "setLocalDescription"
    /\ event.returned = "answer"
    /\ sessions[<<event.client, event.peer>>].signalingState = "stable"

\* the polite side took an offer while its own was outstanding
C31_PoliteReached ==
    \E k \in DOMAIN sessions :
        /\ k[1] < k[2]
        /\ sessions[k].rolledBack
        /\ sessions[k].answersSent = 1

(***************************************************************************)
(* C39: after disconnect() the adapter holds no socket, and until          *)
(* connect() is called again it opens no new connection and schedules no   *)
(* reconnect: the close event of the socket that disconnect() closed       *)
(* leaves the adapter as it is.                                            *)
(***************************************************************************)
C39_DisconnectIsFinal ==
    [][\A a \in DOMAIN transport :
          LET t == transport[a]
              u == transport'[a]
          IN  (t.ws = "none" /\ event'.op # "connect") =>
                  /\ u.ws = "none"
                  /\ Pending(u) <= Pending(t)]_vars


(***************************************************************************)
(* C38: when leaveRoom() was called while joinRoom() awaited the           *)
(* microphone, the signaling connection or its delay, and joinRoom() has   *)
(* ended, the page holds no local stream, no socket of its adapter is      *)
(* open, none of its connections is a member of a room at the gateway,     *)
(* and its room is null, so that isConnected is false.                     *)
(***************************************************************************)
C38_LeaveCancelsJoin ==
    LET m == managers[LocalId]
        t == transport[LocalId]
    IN  (m.at \in {"done", "failed"} /\ m.left = "during") =>
            /\ ~m.localStream
            /\ t.ws # "open"
            /\ t.others["open"] = 0
            /\ \A c \in 1..nextId : RoomsOf(c) = {}
            /\ m.room = None

====
